---- MODULE Spec2Model ----
(***************************************************************************)
(* TinyTaxonomy clustering worker (cluster.worker.impl.ts) with its        *)
(* numeric helpers (utils/math.ts) and the enhanced NLP pipeline           *)
(* (utils/nlpEnhanced.ts).                                                 *)
(*                                                                         *)
(* Numbers.  JavaScript numbers are modelled in fixed point: a real x is   *)
(* the integer round(x * SCALE).  Products of two such values carry        *)
(* SCALE^2 and are divided back where the code divides.                    *)
(*                                                                         *)
(* Text.  A text is a sequence of paragraphs, a paragraph a sequence of    *)
(* sentences, a sentence a sequence of lower-case words.  What wink-nlp    *)
(* and compromise report for a word (stem, lemma, part of speech, stop     *)
(* word flag) is a fixed lexicon.                                          *)
(***************************************************************************)
EXTENDS Integers, Sequences, FiniteSets, TLC

VARIABLES
    pc,              \* position of self.onmessage: idle, similarity, cluster, tree, done
    req,             \* e.data of the run being handled
    outbox,          \* messages posted by the current run, in order
    segments,        \* the units of the current run
    labels,          \* display labels handed to the tree materializer
    vectors,         \* one vector per unit
    matrix,          \* distance matrix
    clusterResult,   \* tree returned by agnes
    heights,         \* merge heights collected for the cutoff selector
    percentile,      \* cutoff percentile in use
    effectiveCutoff, \* cutoff handed to convertToD3WithCutoff
    finalTree,       \* TaxonomyNode posted with the success message
    counter,         \* __worker_node_id_counter
    ran,             \* stages the current run has executed
    runs,            \* requests received so far
    prevReq,         \* request of the last run that ended in success
    prevTree         \* tree of the last run that ended in success

vars == <<pc, req, outbox, segments, labels, vectors, matrix, clusterResult,
          heights, percentile, effectiveCutoff, finalTree, counter, ran, runs,
          prevReq, prevTree>>

\* An object whose optional field f is undefined is a record without f.
Has(o, f) == f \in DOMAIN o

\* the object {}
Empty == [f \in {} |-> TRUE]

\* An array holds its elements: a sequence built element by element is evaluated
\* once, when it is built.
Array(s) == s \o <<>>

\* A Map holds its entries: likewise for a function over keys.
MapOf(f) == f @@ <<>>

-----------------------------------------------------------------------------
(* Bounds *)

\* paragraphs per text
MaxParas == 2
\* runs started by one worker
MaxRuns == 2

-----------------------------------------------------------------------------
(* Fixed point *)

SCALE == 100

Max(a, b) == IF a >= b THEN a ELSE b
Min(a, b) == IF a <= b THEN a ELSE b

RECURSIVE SqrtSearch(_, _, _)
SqrtSearch(n, lo, hi) ==
    IF lo >= hi THEN lo
    ELSE LET mid == (lo + hi + 1) \div 2
         IN  IF mid * mid <= n THEN SqrtSearch(n, mid, hi)
                               ELSE SqrtSearch(n, lo, mid - 1)

\* Math.sqrt on a value carrying SCALE^2, giving a value carrying SCALE
Sqrt(n) == SqrtSearch(n, 0, 46340)

\* 100 * log10(k), rounded
Log10Table == <<0, 30, 48, 60, 70, 78, 85, 90, 95, 100>>

\* Math.log10(num / den) for 1 <= num, den <= 10
Log10Ratio(num, den) == Log10Table[num] - Log10Table[den]

RECURSIVE SumSeq(_)
SumSeq(s) == IF s = <<>> THEN 0 ELSE Head(s) + SumSeq(Tail(s))

RECURSIVE Flatten(_)
Flatten(ss) == IF ss = <<>> THEN <<>> ELSE Head(ss) \o Flatten(Tail(ss))

Range(s) == {s[i] : i \in DOMAIN s}

Includes(s, x) == \E i \in DOMAIN s : s[i] = x

Count(s, x) == Cardinality({i \in DOMAIN s : s[i] = x})

\* [...new Set(s)]: the distinct elements of s in first-seen order
RECURSIVE Unique(_)
Unique(s) ==
    IF s = <<>> THEN <<>>
    ELSE LET front == Unique(SubSeq(s, 1, Len(s) - 1))
             last  == s[Len(s)]
         IN  IF Includes(front, last) THEN front ELSE Append(front, last)

-----------------------------------------------------------------------------
(* Lexicon: what the NLP libraries report for each word *)

Words == {"cats", "cat", "are", "mammals", "small", "cars", "need", "fuel",
          "the", "sat", "dog", "use", "quickly"}

\* wink-nlp its.stopWordFlag
StopWordFlag(w) == w \in {"the", "are"}

\* wink-nlp its.stem
Stem(w) ==
    CASE w = "cats"    -> "cat"
      [] w = "mammals" -> "mammal"
      [] w = "cars"    -> "car"
      [] OTHER         -> w

\* wink-nlp its.pos
WinkPos(w) ==
    CASE w \in {"cats", "cat", "mammals", "cars", "fuel", "dog"} -> "NOUN"
      [] w \in {"need", "sat", "use"}                           -> "VERB"
      [] w = "are"                                              -> "AUX"
      [] w = "small"                                            -> "ADJ"
      [] w = "quickly"                                          -> "ADV"
      [] OTHER                                                  -> "DET"

\* /^N/i.test(pos)
NounLike(pos) == pos \in {"NOUN", "NUM"}

-----------------------------------------------------------------------------
(* Requests *)

SentCatsA == <<"cats", "are", "mammals">>
SentCatsB == <<"cats", "are", "small", "mammals">>
SentCars  == <<"cars", "need", "fuel">>
SentCat   == <<"the", "cat", "sat">>
SentDog   == <<"the", "dog", "sat">>

\* the paragraphs texts are built from; two of them hold two sentences
Paragraphs == { <<SentCatsA, SentCatsB>>, <<SentCars>>, <<SentCat, SentDog>> }

SeqsUpTo(S, n) == UNION {[1..k -> S] : k \in 0..n}

Texts == SeqsUpTo(Paragraphs, MaxParas)

Modes == {"paragraph", "sentence", "word"}

\* options = {}
NoOptions == Empty

OptionSets ==
    { NoOptions,
      [enableEnhancedPipeline |-> FALSE],
      [enableAutoCutoff |-> FALSE, nounOnly |-> TRUE],
      [minWordFreq |-> 2, normalizeVectors |-> FALSE, customStopwords |-> <<"cats">>,
       cutoffPercentile |-> 50] }

Requests == [text : Texts, mode : Modes, options : OptionSets]

\* options.enableEnhancedPipeline !== false
useEnhanced(options) ==
    ~(Has(options, "enableEnhancedPipeline") /\ options.enableEnhancedPipeline = FALSE)

-----------------------------------------------------------------------------
(* Segmentation (self.onmessage, first block) *)

\* doc.sentences().out()
Sentences(text) == Flatten(text)

\* text.split(/\n\n+/).filter(s => s.trim().length > 0)
SplitParagraphs(text) ==
    LET flat == Array([i \in DOMAIN text |-> Flatten(text[i])])
    IN  SelectSeq(flat, LAMBDA p : Len(p) > 0)

\* doc.tokens().filter(type === 'word' && !stopWordFlag)
tokenCollection(text) ==
    SelectSeq(Flatten(Flatten(text)), LAMBDA w : ~StopWordFlag(w))

\* the triples left by the customStopwords filter alone, nounOnly ignored
FilteredTokensAnyPos(text, options) ==
    LET toks == tokenCollection(text)
        all == Array([i \in DOMAIN toks |->
                  [stem |-> Stem(toks[i]), normal |-> toks[i], pos |-> WinkPos(toks[i])]])
    IN  IF Has(options, "customStopwords") /\ Len(options.customStopwords) > 0
        THEN SelectSeq(all, LAMBDA t : ~Includes(options.customStopwords, t.normal))
        ELSE all

\* the (stem, normal, pos) triples left by the customStopwords and nounOnly filters
FilteredTokens(text, options) ==
    LET toks == tokenCollection(text)
        all == Array([i \in DOMAIN toks |->
                  [stem |-> Stem(toks[i]), normal |-> toks[i], pos |-> WinkPos(toks[i])]])
        custom == IF Has(options, "customStopwords") /\ Len(options.customStopwords) > 0
                  THEN SelectSeq(all, LAMBDA t : ~Includes(options.customStopwords, t.normal))
                  ELSE all
    IN  IF Has(options, "nounOnly") /\ options.nounOnly
        THEN SelectSeq(custom, LAMBDA t : NounLike(t.pos))
        ELSE custom

\* typeof options.minWordFreq === 'number' ? Math.max(1, options.minWordFreq) : 1
minFreq(options) ==
    IF Has(options, "minWordFreq") THEN Max(1, options.minWordFreq) ELSE 1

\* [...new Set(stemsAll)].filter(s => stemCounts.get(s) >= minFreq)
uniqueStems(text, options) ==
    LET filtered == FilteredTokens(text, options)
        stemsAll == Array([i \in DOMAIN filtered |-> filtered[i].stem])
    IN  SelectSeq(Unique(stemsAll), LAMBDA s : Count(stemsAll, s) >= minFreq(options))

\* the most frequent normal form of stem s in stemToCounts, which is tabulated
\* before any filter; the first normal seen wins a tie (c > bestCount)
\* the loop with c >= bestCount: the last normal seen wins a tie
RECURSIVE BestNormalLast(_, _, _, _)
BestNormalLast(normals, counts, best, bestCount) ==
    IF normals = <<>> THEN best
    ELSE IF counts[Head(normals)] >= bestCount
         THEN BestNormalLast(Tail(normals), counts, Head(normals), counts[Head(normals)])
         ELSE BestNormalLast(Tail(normals), counts, best, bestCount)

RECURSIVE BestNormal(_, _, _, _)
BestNormal(normals, counts, best, bestCount) ==
    IF normals = <<>> THEN best
    ELSE IF counts[Head(normals)] > bestCount
         THEN BestNormal(Tail(normals), counts, Head(normals), counts[Head(normals)])
         ELSE BestNormal(Tail(normals), counts, best, bestCount)

labelsForDisplayGlobal(text, options) ==
    LET toks == tokenCollection(text)
        stems == uniqueStems(text, options)
        NormalsOf(s) == Unique(SelectSeq(toks, LAMBDA w : Stem(w) = s))
        CountsOf(s) == MapOf([n \in Range(NormalsOf(s)) |-> Count(toks, n)])
    IN  Array([i \in DOMAIN stems |->
                 BestNormal(NormalsOf(stems[i]), CountsOf(stems[i]), "", -1)])

\* the segments of a request
Segment(r) ==
    CASE r.mode = "paragraph" -> SplitParagraphs(r.text)
      [] r.mode = "sentence"  -> Sentences(r.text)
      [] r.mode = "word"      -> uniqueStems(r.text, r.options)

\* contextSegments
ContextSegments(r) == IF r.mode = "word" THEN Sentences(r.text) ELSE <<>>

-----------------------------------------------------------------------------
(* utils/math.ts *)

\* tokenWeights?.get(term) ?? 1.0 ; no tokenWeights is the map without keys
WeightOf(tokenWeights, term) ==
    IF term \in DOMAIN tokenWeights THEN tokenWeights[term] ELSE SCALE

\* vector / magnitude when normalizeVector is set and magnitude > 0
L2Normalize(vector) ==
    LET magnitude == Sqrt(SumSeq(Array([i \in DOMAIN vector |-> vector[i] * vector[i]])))
    IN  IF magnitude > 0
        THEN Array([i \in DOMAIN vector |-> (vector[i] * SCALE) \div magnitude])
        ELSE vector

\* the vector with idf = log10(N / docsWithTerm), without the 1 + smoothing
tfIdfUnsmoothed(tokens, allDocs, vocab, tokenWeights, normalizeVector) ==
    LET N == Len(allDocs)
        Score(term) ==
            LET count == Count(tokens, term)
                docsWithTerm == Cardinality({d \in DOMAIN allDocs : Includes(allDocs[d], term)})
                idf == Log10Ratio(N, docsWithTerm)
            IN  IF count = 0 THEN 0
                ELSE (count * idf * WeightOf(tokenWeights, term)) \div (Len(tokens) * SCALE)
        vector == Array([i \in DOMAIN vocab |-> Score(vocab[i])])
    IN  IF Len(tokens) = 0 THEN Array([i \in DOMAIN vocab |-> 0])
        ELSE IF normalizeVector THEN L2Normalize(vector) ELSE vector

\* tf * idf * weight per vocabulary term, then the optional L2 normalization
calculateTfIdfVector(tokens, allDocs, vocab, tokenWeights, normalizeVector) ==
    LET N == Len(allDocs)
        Score(term) ==
            LET count == Count(tokens, term)
                docsWithTerm == Cardinality({d \in DOMAIN allDocs : Includes(allDocs[d], term)})
                idf == Log10Ratio(N, 1 + docsWithTerm)
            IN  IF count = 0 THEN 0
                ELSE (count * idf * WeightOf(tokenWeights, term)) \div (Len(tokens) * SCALE)
        vector == Array([i \in DOMAIN vocab |-> Score(vocab[i])])
    IN  IF Len(tokens) = 0 THEN Array([i \in DOMAIN vocab |-> 0])
        ELSE IF normalizeVector THEN L2Normalize(vector) ELSE vector

\* dot / (sqrt(magA) * sqrt(magB)), 0 when either magnitude is 0
cosineSimilarity(a, b) ==
    LET dot  == SumSeq(Array([i \in DOMAIN a |-> a[i] * b[i]]))
        magA == SumSeq(Array([i \in DOMAIN a |-> a[i] * a[i]]))
        magB == SumSeq(Array([i \in DOMAIN a |-> b[i] * b[i]]))
    IN  IF magA = 0 \/ magB = 0 THEN 0
        ELSE (dot * SCALE) \div (Sqrt(magA) * Sqrt(magB))

\* 1 - sim without Math.max(0, ...)
calculateDistanceMatrixUnclamped(vecs) ==
    Array([i \in DOMAIN vecs |->
        Array([j \in DOMAIN vecs |->
            IF i = j THEN 0
            ELSE SCALE - cosineSimilarity(vecs[Min(i, j)], vecs[Max(i, j)])])])

\* the loop without matrix[j][i] = dist: the lower triangle keeps its 0
calculateDistanceMatrixUnmirrored(vecs) ==
    Array([i \in DOMAIN vecs |->
        Array([j \in DOMAIN vecs |->
            IF j > i THEN Max(0, SCALE - cosineSimilarity(vecs[i], vecs[j])) ELSE 0])])

\* the loop fills matrix[i][j] for j > i and mirrors it into matrix[j][i];
\* the diagonal keeps the 0 the matrix was created with
calculateDistanceMatrix(vecs) ==
    Array([i \in DOMAIN vecs |->
        Array([j \in DOMAIN vecs |->
            IF i = j THEN 0
            ELSE Max(0, SCALE - cosineSimilarity(vecs[Min(i, j)], vecs[Max(i, j)]))])])

-----------------------------------------------------------------------------
(* utils/nlpEnhanced.ts *)

\* compromise: part of speech derived from the term's tags
CompromisePos(w) ==
    CASE w \in {"cats", "cat", "mammals", "cars", "fuel", "dog"} -> "NOUN"
      [] w \in {"need", "sat", "are", "use"}                    -> "VERB"
      [] w = "small"                                            -> "ADJ"
      [] w = "quickly"                                          -> "ADV"
      [] OTHER                                                  -> "OTHER"

\* compromise: verbs().toInfinitive() / nouns().toSingular(), else term.normal
Lemma(w) ==
    CASE w = "cats"    -> "cat"
      [] w = "mammals" -> "mammal"
      [] w = "cars"    -> "car"
      [] w = "are"     -> "be"
      [] w = "sat"     -> "sit"
      [] OTHER         -> w

GLUE_WORDS ==
    {"process", "level", "relationship", "structure", "element",
     "system", "type", "form", "part", "way", "thing", "aspect",
     "area", "point", "case", "example", "result", "effect",
     "use", "work", "make", "take", "give", "get", "set",
     "number", "amount", "kind", "sort", "group", "series"}

\* weight *= 0.5 for glue words
GluePenalty == 50

\* nounPhraseBoost ?? 1.3
DefaultNounPhraseBoost == 130

\* globalTokenWeights.set(ngram.joined, 1.2)
NgramWeight == 120

\* minNgramFreq ?? 2
DefaultMinNgramFreq == 2

\* maxNgramLength = 3
DefaultMaxNgramLength == 3

tokenizeWithLemmas(text) ==
    Array([i \in DOMAIN text |->
        [text |-> text[i],
         lemma |-> Lemma(text[i]),
         pos |-> CompromisePos(text[i]),
         isNounPhrase |-> FALSE,
         weight |-> IF Lemma(text[i]) \in GLUE_WORDS
                    THEN (SCALE * GluePenalty) \div SCALE ELSE SCALE]])

\* doc.match('#Adjective? #Noun+'): the phrase that starts at word i, if any;
\* it runs over an optional adjective and then every noun that follows
RECURSIVE NounRunEnd(_, _)
NounRunEnd(text, i) ==
    IF i <= Len(text) /\ CompromisePos(text[i]) = "NOUN" THEN NounRunEnd(text, i + 1) ELSE i

PhraseEnd(text, i) ==
    IF CompromisePos(text[i]) = "ADJ" /\ NounRunEnd(text, i + 1) > i + 1
    THEN NounRunEnd(text, i + 1)
    ELSE NounRunEnd(text, i)

RECURSIVE MatchPhrases(_, _)
MatchPhrases(text, i) ==
    IF i > Len(text) THEN <<>>
    ELSE LET end == PhraseEnd(text, i)
         IN  IF end > i
             THEN <<SubSeq(text, i, end - 1)>> \o MatchPhrases(text, end)
             ELSE MatchPhrases(text, i + 1)

\* phrases of at most 4 words (every word of the lexicon is longer than 2 characters)
extractNounPhrases(text) ==
    SelectSeq(MatchPhrases(text, 1), LAMBDA ph : Len(ph) <= 4)

RECURSIVE Boosted(_, _, _)
Boosted(weight, boost, times) ==
    IF times = 0 THEN weight ELSE Boosted((weight * boost) \div SCALE, boost, times - 1)

\* every window of 2..4 lemmas that equals a phrase boosts each token in it
markNounPhraseTokens(tokens, nounPhrases, boost) ==
    LET Matched(i, len) ==
            /\ i + len - 1 <= Len(tokens)
            /\ Includes(nounPhrases, [k \in 1..len |-> tokens[i + k - 1].lemma])
        matches == {w \in (1..Len(tokens)) \X (2..4) : Matched(w[1], w[2])}
        Hits(j) == Cardinality({w \in matches : w[1] <= j /\ j < w[1] + w[2]})
    IN  Array([j \in DOMAIN tokens |->
            [tokens[j] EXCEPT !.isNounPhrase = @ \/ Hits(j) > 0,
                              !.weight = Boosted(@, boost, Hits(j))]])

\* the windows of n lemmas of a document, left to right
Windows(doc, n) ==
    IF Len(doc) < n THEN <<>>
    ELSE Array([i \in 1..(Len(doc) - n + 1) |-> SubSeq(doc, i, i + n - 1)])

RECURSIVE WindowsUpTo(_, _, _)
WindowsUpTo(doc, n, maxLen) ==
    IF n > maxLen THEN <<>> ELSE Windows(doc, n) \o WindowsUpTo(doc, n + 1, maxLen)

RECURSIVE ByCountDescending(_, _)
ByCountDescending(ngrams, c) ==
    IF c < 0 THEN <<>>
    ELSE SelectSeq(ngrams, LAMBDA g : g.count = c) \o ByCountDescending(ngrams, c - 1)

\* tokens.join('_')
RECURSIVE JoinUnderscore(_)
JoinUnderscore(tokens) ==
    IF Len(tokens) = 1 THEN tokens[1]
    ELSE tokens[1] \o "_" \o JoinUnderscore(Tail(tokens))

\* n-grams keyed by their joined form, counted once per document, kept at
\* count >= minFreq, sorted by count descending (the sort is stable: equal counts
\* keep the insertion order of the map); the tokens are those of the first
\* window that produced the key
detectNgrams(documents, minFreqN, maxLen) ==
    LET windows == Flatten(Array([d \in DOMAIN documents |->
                                    WindowsUpTo(documents[d], 2, maxLen)]))
        perDoc == Array([d \in DOMAIN documents |->
                           LET ws == WindowsUpTo(documents[d], 2, maxLen)
                           IN  Unique(Array([i \in DOMAIN ws |-> JoinUnderscore(ws[i])]))])
        keys   == Unique(Flatten(perDoc))
        FirstWindow(key) ==
            windows[CHOOSE i \in DOMAIN windows :
                        /\ JoinUnderscore(windows[i]) = key
                        /\ \A j \in 1..(i - 1) : JoinUnderscore(windows[j]) # key]
        counted == Array([i \in DOMAIN keys |->
                      [tokens |-> FirstWindow(keys[i]), joined |-> keys[i],
                       count |-> Cardinality({d \in DOMAIN documents :
                                                Includes(perDoc[d], keys[i])}),
                       isNounPhrase |-> FALSE]])
        kept   == SelectSeq(counted, LAMBDA g : g.count >= minFreqN)
    IN  ByCountDescending(kept, Len(documents))

RECURSIVE ByLengthDescending(_, _)
ByLengthDescending(ngrams, len) ==
    IF len < 0 THEN <<>>
    ELSE SelectSeq(ngrams, LAMBDA g : Len(g.tokens) = len) \o ByLengthDescending(ngrams, len - 1)

\* the first n-gram of sorted that matches lemmas at position i, or Empty when
\* none does
RECURSIVE FirstMatch(_, _, _)
FirstMatch(lemmas, i, sorted) ==
    IF sorted = <<>> THEN Empty
    ELSE IF /\ i + Len(Head(sorted).tokens) - 1 <= Len(lemmas)
            /\ SubSeq(lemmas, i, i + Len(Head(sorted).tokens) - 1) = Head(sorted).tokens
         THEN Head(sorted)
         ELSE FirstMatch(lemmas, i, Tail(sorted))

RECURSIVE ApplyFrom(_, _, _)
ApplyFrom(lemmas, i, sorted) ==
    IF i > Len(lemmas) THEN <<>>
    ELSE LET match == FirstMatch(lemmas, i, sorted)
         IN  IF match # Empty
             THEN <<match.joined>> \o ApplyFrom(lemmas, i + Len(match.tokens), sorted)
             ELSE <<lemmas[i]>> \o ApplyFrom(lemmas, i + 1, sorted)

\* the replacement without the sort by length: the n-grams in detection order
applyNgramsUnsorted(lemmas, ngrams) == ApplyFrom(lemmas, 1, ngrams)

\* A term of a vocabulary is a string: a lemma, or the joined form of an n-gram.
applyNgramsToDocument(lemmas, ngrams) ==
    ApplyFrom(lemmas, 1, ByLengthDescending(ngrams, DefaultMaxNgramLength + 1))

\* globalTokenWeights after the tokens seen so far: (existing + weight) / 2
RECURSIVE AverageWeights(_, _)
AverageWeights(entries, weights) ==
    IF entries = <<>> THEN weights
    ELSE LET key == Head(entries).key
             w   == Head(entries).weight
         IN  AverageWeights(Tail(entries),
                 IF key \in DOMAIN weights
                 THEN [weights EXCEPT ![key] = (@ + w) \div 2]
                 ELSE MapOf([k \in DOMAIN weights \cup {key} |->
                                IF k = key THEN w ELSE weights[k]]))

processDocumentsEnhanced(texts, options) ==
    LET enableLemmatization == options.enableLemmatization
        Key(t) == IF enableLemmatization THEN t.lemma ELSE t.text
        tokens == Array([d \in DOMAIN texts |->
                     markNounPhraseTokens(tokenizeWithLemmas(texts[d]),
                                          extractNounPhrases(texts[d]),
                                          options.nounPhraseBoost)])
        allLemmaSequences ==
            Array([d \in DOMAIN texts |->
                     Array([i \in DOMAIN tokens[d] |-> Key(tokens[d][i])])])
        ngrams == IF options.enableNgrams
                  THEN detectNgrams(allLemmaSequences, options.minNgramFreq, DefaultMaxNgramLength)
                  ELSE <<>>
        vocabulary ==
            Array([d \in DOMAIN texts |->
                IF options.enableNgrams
                THEN applyNgramsToDocument(allLemmaSequences[d], ngrams)
                ELSE allLemmaSequences[d]])
        flat == Flatten(tokens)
        lemmaWeights ==
            AverageWeights(Array([i \in DOMAIN flat |->
                                    [key |-> Key(flat[i]), weight |-> flat[i].weight]]), <<>>)
        tokenWeights ==
            MapOf([k \in DOMAIN lemmaWeights \cup {ngrams[g].joined : g \in DOMAIN ngrams} |->
                     IF \E g \in DOMAIN ngrams : ngrams[g].joined = k
                     THEN NgramWeight ELSE lemmaWeights[k]])
    IN  [processedDocs |-> Array([d \in DOMAIN texts |->
                              [originalText |-> texts[d], tokens |-> tokens[d],
                               ngrams |-> ngrams, vocabulary |-> vocabulary[d]]]),
         globalVocabulary |-> Unique(Flatten(vocabulary)),
         tokenWeights |-> tokenWeights,
         ngrams |-> ngrams]

\* the percentile index is floor(n * percentile)
DefaultCutoffPercentile == 85

\* findHeightGaps(heights, 1.5)
MinGapRatio == 150

\* cutoff: Infinity of an empty height list
Infinity == 2147483647

RECURSIVE Insert(_, _)
Insert(sorted, x) ==
    IF sorted = <<>> THEN <<x>>
    ELSE IF x < Head(sorted) THEN <<x>> \o sorted
         ELSE <<Head(sorted)>> \o Insert(Tail(sorted), x)

\* [...heights].sort((a, b) => a - b)
RECURSIVE SortAscending(_)
SortAscending(hs) ==
    IF hs = <<>> THEN <<>> ELSE Insert(SortAscending(Tail(hs)), Head(hs))

\* the cutoff field of computeDendrogramCutoff's result
computeDendrogramCutoff(hs, pct) ==
    LET sorted == SortAscending(hs)
        cutoffIdx == Min((Len(sorted) * pct) \div SCALE, Len(sorted) - 1)
    IN  IF Len(hs) = 0 THEN Infinity ELSE sorted[cutoffIdx + 1]

\* the heights curr of the sorted list with prev > 0 and curr / prev >= minGapRatio
findHeightGaps(hs, minGapRatio) ==
    LET sorted == SortAscending(hs)
        IsGap(i) == /\ sorted[i - 1] > 0
                    /\ sorted[i] * SCALE >= minGapRatio * sorted[i - 1]
        at == SelectSeq(Array([i \in 1..(Len(sorted) - 1) |-> i + 1]), IsGap)
    IN  IF Len(hs) < 2 THEN <<>> ELSE Array([k \in DOMAIN at |-> sorted[at[k]]])

-----------------------------------------------------------------------------
(* workers/cluster.worker.impl.ts: similarity matrices *)

\* a result of the three similarity functions
Similarity(vecs, lbls, weights) ==
    [vectors |-> vecs, matrix |-> calculateDistanceMatrix(vecs), labels |-> lbls,
     tokenWeightsForLabeling |-> weights]

calculateSegmentSimilarityMatrix(segs) ==
    LET tokenizedSegments ==
            Array([d \in DOMAIN segs |->
                LET kept == SelectSeq(segs[d], LAMBDA w : ~StopWordFlag(w))
                IN  Array([i \in DOMAIN kept |-> Stem(kept[i])])])
        vocabulary == Unique(Flatten(tokenizedSegments))
    IN  Similarity(Array([d \in DOMAIN segs |->
                      calculateTfIdfVector(tokenizedSegments[d], tokenizedSegments,
                                           vocabulary, Empty, FALSE)]),
                   segs, Empty)

\* the EnhancedPipelineOptions the worker builds from the request's options
enhancedOptions(options) ==
    [enableLemmatization |-> ~(Has(options, "enableLemmatization") /\ ~options.enableLemmatization),
     enableNgrams |-> ~(Has(options, "enableNgrams") /\ ~options.enableNgrams),
     minNgramFreq |-> IF Has(options, "minNgramFreq") THEN options.minNgramFreq
                      ELSE DefaultMinNgramFreq,
     nounPhraseBoost |-> IF Has(options, "nounPhraseBoost") THEN options.nounPhraseBoost
                         ELSE DefaultNounPhraseBoost,
     glueWordPenalty |-> IF Has(options, "glueWordPenalty") THEN options.glueWordPenalty
                         ELSE GluePenalty,
     normalizeVectors |-> ~(Has(options, "normalizeVectors") /\ ~options.normalizeVectors)]

\* df >= 1 && df / N <= 0.95
MaxDfRatio == 95

\* the vocabulary without the document-frequency filter
unfilteredVocabulary(globalVocabulary, tokenizedSegments) == globalVocabulary

filteredVocabulary(globalVocabulary, tokenizedSegments) ==
    LET Df(term) == Cardinality({d \in DOMAIN tokenizedSegments :
                                   Includes(tokenizedSegments[d], term)})
    IN  SelectSeq(globalVocabulary,
                  LAMBDA term : /\ Df(term) >= 1
                                /\ Df(term) * SCALE <= MaxDfRatio * Len(tokenizedSegments))

\* the vectors and the matrix from the result of processDocumentsEnhanced
EnhancedSimilarity(segs, options, processed) ==
    LET tokenizedSegments ==
            Array([d \in DOMAIN segs |-> processed.processedDocs[d].vocabulary])
        vocab == filteredVocabulary(processed.globalVocabulary, tokenizedSegments)
    IN  Similarity(Array([d \in DOMAIN segs |->
                      calculateTfIdfVector(tokenizedSegments[d], tokenizedSegments, vocab,
                                           processed.tokenWeights, options.normalizeVectors)]),
                   segs, processed.tokenWeights)

calculateEnhancedSegmentSimilarityMatrix(segs, options) ==
    EnhancedSimilarity(segs, options, processDocumentsEnhanced(segs, options))

\* one coordinate per context sentence: 1 when the stem occurs in it, else 0
calculateWordSimilarityMatrix(words, contexts, labelsForDisplay) ==
    LET tokenizedContexts ==
            Array([c \in DOMAIN contexts |->
                     Array([i \in DOMAIN contexts[c] |-> Stem(contexts[c][i])])])
    IN  Similarity(Array([w \in DOMAIN words |->
                      Array([c \in DOMAIN contexts |->
                          IF Includes(tokenizedContexts[c], words[w]) THEN SCALE ELSE 0])]),
                   labelsForDisplay, Empty)

\* the similarity block of self.onmessage for a request and its segments
SimilarityOf(r, segs) ==
    IF r.mode = "word"
    THEN LET display == labelsForDisplayGlobal(r.text, r.options)
         IN  calculateWordSimilarityMatrix(segs, ContextSegments(r),
                 Array([i \in DOMAIN display |-> <<display[i]>>]))
    ELSE IF useEnhanced(r.options)
         THEN calculateEnhancedSegmentSimilarityMatrix(segs, enhancedOptions(r.options))
         ELSE calculateSegmentSimilarityMatrix(segs)

-----------------------------------------------------------------------------
(* Cluster Engine: agnes(matrix, {method: 'average', isDistanceMatrix: true}) *)

\* A cluster node carries children, height and index; a leaf has no children,
\* height 0 and the 0-based unit index; a merge has two children and index -1.
Leaf(i) == [children |-> <<>>, height |-> 0, index |-> i]

\* a merge that absorbs the children of a left constituent that is itself a merge
MergeAbsorbing(left, right, h) ==
    [children |-> (IF left.children # <<>> THEN left.children ELSE <<left>>) \o <<right>>,
     height |-> h, index |-> -1]

Merge(left, right, h) == [children |-> <<left, right>>, height |-> h, index |-> -1]

\* The distance from the merged cluster to another one, from the distances dA and
\* dB of its two constituents to it, their sizes and their own distance h.
\* average: the size-weighted mean of dA and dB.
linkage(method, dA, dB, h, sizeA, sizeB) ==
    CASE method = "complete" -> Max(dA, dB)
      [] method = "centroid" ->
            (sizeA * dA + sizeB * dB) \div (sizeA + sizeB)
            - (sizeA * sizeB * h) \div ((sizeA + sizeB) * (sizeA + sizeB))
      [] OTHER               -> (sizeA * dA + sizeB * dB) \div (sizeA + sizeB)

\* the pair with the minimum distance, the highest in index order among equal minima
SmallestPairLast(D, n) ==
    LET pairs == {p \in (1..n) \X (1..n) : p[1] < p[2]}
        Before(p, q) == p[1] < q[1] \/ (p[1] = q[1] /\ p[2] <= q[2])
    IN  CHOOSE p \in pairs :
            \A q \in pairs :
                \/ D[p[1]][p[2]] < D[q[1]][q[2]]
                \/ (D[p[1]][p[2]] = D[q[1]][q[2]] /\ Before(q, p))

\* the pair of active clusters with the minimum distance; among equal minima the
\* pair lowest in original index order (clusters are kept in that order)
SmallestPair(D, n) ==
    LET pairs == {p \in (1..n) \X (1..n) : p[1] < p[2]}
        Before(p, q) == p[1] < q[1] \/ (p[1] = q[1] /\ p[2] <= q[2])
    IN  CHOOSE p \in pairs :
            \A q \in pairs :
                \/ D[p[1]][p[2]] < D[q[1]][q[2]]
                \/ (D[p[1]][p[2]] = D[q[1]][q[2]] /\ Before(p, q))

\* one merge: the closest pair becomes one cluster in the place of its first
\* constituent, and the distances to it are updated by the linkage
AgnesStep(clusters, D, method) ==
    LET n == Len(clusters)
        pair == SmallestPair(D, n)
        a == pair[1]
        b == pair[2]
        h == D[a][b]
        merged == [node |-> Merge(clusters[a].node, clusters[b].node, h),
                   size |-> clusters[a].size + clusters[b].size]
        Old(k) == IF k < b THEN k ELSE k + 1
        Link(o) == linkage(method, D[a][o], D[b][o], h,
                           clusters[a].size, clusters[b].size)
    IN  [pair |-> pair,
         clusters |-> Array([k \in 1..(n - 1) |->
                                IF k = a THEN merged ELSE clusters[Old(k)]]),
         D |-> Array([k \in 1..(n - 1) |-> Array([l \in 1..(n - 1) |->
                     IF k = l THEN 0
                     ELSE IF k = a THEN Link(Old(l))
                     ELSE IF l = a THEN Link(Old(k))
                     ELSE D[Old(k)][Old(l)]])])]

RECURSIVE AgnesLoop(_, _, _)
AgnesLoop(clusters, D, method) ==
    IF Len(clusters) = 1 THEN clusters[1].node
    ELSE LET step == AgnesStep(clusters, D, method)
         IN  AgnesLoop(step.clusters, step.D, method)

\* the merges of the loop in order: the active clusters and their distances
\* before the merge, and the pair that is merged
RECURSIVE AgnesSteps(_, _, _)
AgnesSteps(clusters, D, method) ==
    IF Len(clusters) = 1 THEN <<>>
    ELSE LET step == AgnesStep(clusters, D, method)
         IN  <<[clusters |-> clusters, D |-> D, pair |-> step.pair,
                merged |-> step.clusters[step.pair[1]].node]>>
             \o AgnesSteps(step.clusters, step.D, method)

agnes(D, options) ==
    AgnesLoop(Array([i \in DOMAIN D |-> [node |-> Leaf(i - 1), size |-> 1]]), D,
              options.method)

-----------------------------------------------------------------------------
(* workers/cluster.worker.impl.ts: heights and tree materialization *)

\* node.children alone, which an empty array satisfies
HasChildrenField(node) == Has(node, "children")

\* node.children && node.children.length > 0
HasChildren(node) == Has(node, "children") /\ Len(node.children) > 0

\* heights.push(node.height) for every node with a height, parent before children
RECURSIVE collectHeights(_)
RECURSIVE collectHeightsOfAll(_)
collectHeights(node) ==
    (IF Has(node, "height") THEN <<node.height>> ELSE <<>>)
    \o (IF HasChildren(node) THEN collectHeightsOfAll(node.children) ELSE <<>>)

collectHeightsOfAll(nodes) ==
    IF nodes = <<>> THEN <<>>
    ELSE collectHeights(Head(nodes)) \o collectHeightsOfAll(Tail(nodes))

\* n.index !== undefined && n.index >= 0 && n.index < labels.length
ValidIndex(node, lbls) ==
    Has(node, "index") /\ node.index >= 0 /\ node.index < Len(lbls)

\* collectAll: the labels of the valid leaves under a node, depth first
RECURSIVE allLeaves(_, _)
RECURSIVE allLeavesOfAll(_, _)
allLeaves(node, lbls) ==
    IF HasChildren(node) THEN allLeavesOfAll(node.children, lbls)
    ELSE IF ValidIndex(node, lbls) THEN <<lbls[node.index + 1]>> ELSE <<>>

allLeavesOfAll(nodes, lbls) ==
    IF nodes = <<>> THEN <<>>
    ELSE allLeaves(Head(nodes), lbls) \o allLeavesOfAll(Tail(nodes), lbls)

Take(s, n) == SubSeq(s, 1, Min(n, Len(s)))

\* collectSampleLeaves(node, out, 5): the same walk, stopped at 5 labels
SampleLimit == 5

collectSampleLeaves(node, lbls) == Take(allLeaves(node, lbls), SampleLimit)

\* characters of a word
WordLength(w) ==
    CASE w \in {"mammals", "quickly"} -> 7
      [] w = "small" -> 5
      [] w \in {"cats", "cars", "need", "fuel"} -> 4
      [] OTHER -> 3

\* fullText.length of a text: its words and the blanks between them
TextLength(text) ==
    SumSeq(Array([i \in DOMAIN text |-> WordLength(text[i])])) + Max(0, Len(text) - 1)

NameLimit == 40

\* fullText.length > 40 ? fullText.substring(0, 37) + '...' : fullText
DisplayName(fullText) ==
    [text |-> fullText, truncated |-> TextLength(fullText) > NameLimit]

\* the counter read without the increment
nextWorkerNodeIdStuck(ctr) == ctr

\* ++__worker_node_id_counter
nextWorkerNodeId(ctr) == ctr + 1

\* finalCandidates.slice(0, 3)
KeywordLimit == 3

\* scores of textRank carry RankScale
RankScale == 10000

\* d = 0.85, in hundredths
Damping == 85

\* textRank(tokenBuckets, tokenPosByLeaf, 3, 0.85, 18)
RankWindow == 3

RankIterations == 18

\* the tokens within windowSize positions of each other in a sequence, as pairs
\* of different keys
CoOccurs(tokensList, windowSize, a, b) ==
    /\ a # b
    /\ \E s \in DOMAIN tokensList : \E i, j \in DOMAIN tokensList[s] :
          /\ i < j /\ j <= i + windowSize
          /\ {tokensList[s][i], tokensList[s][j]} = {a, b}

\* one round: next[i] = (1 - d) + d * sum over neighbours j of scores[j] / (deg(j) || 1)
RECURSIVE RankRounds(_, _, _)
RankRounds(scores, adj, rounds) ==
    IF rounds = 0 THEN scores
    ELSE RankRounds(
             Array([i \in DOMAIN scores |->
                 (RankScale * (100 - Damping)) \div 100
                 + (Damping * SumSeq(Array([j \in DOMAIN scores |->
                                  IF j \in adj[i]
                                  THEN scores[j] \div Max(1, Cardinality(adj[j]))
                                  ELSE 0]))) \div 100]),
             adj, rounds - 1)

\* scored.sort((a, b) => b.score - a.score): stable, descending
RECURSIVE InsertByScore(_, _)
InsertByScore(sorted, x) ==
    IF sorted = <<>> THEN <<x>>
    ELSE IF x.score > Head(sorted).score THEN <<x>> \o sorted
         ELSE <<Head(sorted)>> \o InsertByScore(Tail(sorted), x)

RECURSIVE ByScoreDescending(_)
ByScoreDescending(scored) ==
    IF scored = <<>> THEN <<>>
    ELSE InsertByScore(ByScoreDescending(SubSeq(scored, 1, Len(scored) - 1)),
                       scored[Len(scored)])

\* utils/nlp.ts textRank: the tokens with their scores, best first
RankOver(keys, adj) ==
    LET scores == RankRounds(Array([i \in DOMAIN keys |-> RankScale]), adj, RankIterations)
    IN  ByScoreDescending(Array([i \in DOMAIN keys |-> [token |-> keys[i], score |-> scores[i]]]))

AdjacencyOf(keys, tokensList, windowSize) ==
    Array([i \in DOMAIN keys |->
        {j \in DOMAIN keys : CoOccurs(tokensList, windowSize, keys[i], keys[j])}])

KeysOf(tokensList) ==
    Unique(SelectSeq(Flatten(tokensList), LAMBDA t : WordLength(t) > 1))

textRank(tokensList, windowSize) ==
    RankOver(KeysOf(tokensList), AdjacencyOf(KeysOf(tokensList), tokensList, windowSize))

\* toks: the words of a leaf text that are no stop words
LeafWords(leafText) == SelectSeq(leafText, LAMBDA w : ~StopWordFlag(w))

\* normals.filter(n => n && n.length > 1) per leaf
TokenBuckets(leaves) ==
    Array([l \in DOMAIN leaves |->
        SelectSeq(LeafWords(leaves[l]), LAMBDA w : WordLength(w) > 1)])

\* toks.out(its.pos) per leaf
TokenPosByLeaf(leaves) ==
    Array([l \in DOMAIN leaves |->
        Array([i \in DOMAIN LeafWords(leaves[l]) |-> WinkPos(LeafWords(leaves[l])[i])])])

\* bucket.indexOf(c) of a bucket that holds c, counted from 1
indexOf(s, x) == CHOOSE i \in DOMAIN s : s[i] = x /\ \A j \in 1..(i - 1) : s[j] # x

\* the pos at the index of the first occurrence of c in the first bucket that
\* holds it; '' when no bucket holds it or the pos list is shorter
FoundPos(buckets, poses, c) ==
    IF \A l \in DOMAIN buckets : ~Includes(buckets[l], c) THEN ""
    ELSE LET li  == CHOOSE l \in DOMAIN buckets :
                        Includes(buckets[l], c)
                        /\ \A k \in 1..(l - 1) : ~Includes(buckets[k], c)
             idx == indexOf(buckets[li], c)
         IN  IF idx \in DOMAIN poses[li] THEN poses[li][idx] ELSE ""

\* /^N|^A/i.test(pos), over the tags of wink-nlp
NounOrALike(pos) == pos \in {"NOUN", "NUM", "ADJ", "ADP", "ADV", "AUX"}

\* /^V/i.test(pos)
VerbLike(pos) == pos \in {"VERB"}

\* /^A/i.test(pos)
ALike(pos) == pos \in {"ADJ", "ADP", "ADV", "AUX"}

\* the ranked tokens
Candidates(buckets) ==
    LET ranked == textRank(buckets, RankWindow)
    IN  Array([i \in DOMAIN ranked |-> ranked[i].token])

\* finalCandidates.slice(0, 3)
KeywordsOf(candidates, buckets, poses) ==
    LET nounCandidates ==
            SelectSeq(candidates, LAMBDA c : NounOrALike(FoundPos(buckets, poses, c)))
    IN  Take(IF Len(nounCandidates) > 0 THEN nounCandidates ELSE candidates, KeywordLimit)

\* the hint of a keyword in the label: none for a noun, 'to k' for a verb,
\* 'adj' for an A tag, else the tag
HintOf(pos) ==
    IF pos = "" \/ NounLike(pos) THEN "none"
    ELSE IF VerbLike(pos) THEN "to"
    ELSE IF ALike(pos) THEN "adj"
    ELSE pos

\* clusterLabel: the keywords with their hints, joined by ' / '; null without keywords
Null == <<>>

LabelOf(keywords, buckets, poses) ==
    IF Len(keywords) = 0 THEN Null
    ELSE Array([k \in DOMAIN keywords |->
             [token |-> keywords[k], hint |-> HintOf(FoundPos(buckets, poses, keywords[k]))]])

\* the clusterKeywords and clusterLabel fields of a cluster over the given leaf texts
KeywordFields(buckets, poses) ==
    LET keywords == KeywordsOf(Candidates(buckets), buckets, poses)
    IN  [clusterKeywords |-> keywords, clusterLabel |-> LabelOf(keywords, buckets, poses)]

clusterKeywordFields(node, lbls) ==
    KeywordFields(TokenBuckets(allLeaves(node, lbls)), TokenPosByLeaf(allLeaves(node, lbls)))

\* convertToD3 and the map over children; each returns the converted value and
\* the counter it leaves behind
RECURSIVE convertToD3(_, _, _)
RECURSIVE convertAll(_, _, _)
convertToD3(node, lbls, ctr) ==
    IF HasChildren(node)
    THEN LET kids == convertAll(node.children, lbls, ctr)
             id == nextWorkerNodeId(kids.ctr)
             base == [id |-> id,
                      name |-> [text |-> <<"Cluster (H:)">>, truncated |-> FALSE],
                      sampleLeaves |-> collectSampleLeaves(node, lbls),
                      children |-> kids.trees,
                      type |-> "cluster"]
         IN  [tree |-> (IF Has(node, "height")
                        THEN [height |-> node.height] @@ base
                        ELSE base) @@ clusterKeywordFields(node, lbls),
              ctr |-> id]
    ELSE IF Has(node, "index")
    THEN IF node.index < 0 \/ node.index >= Len(lbls)
         THEN [tree |-> [name |-> [text |-> <<"[Error: Index]">>, index |-> node.index,
                                   truncated |-> FALSE],
                         fullText |-> <<"Invalid index from clustering.">>,
                         value |-> 1, type |-> "leaf"],
               ctr |-> ctr]
         ELSE [tree |-> [id |-> nextWorkerNodeId(ctr),
                         name |-> DisplayName(lbls[node.index + 1]),
                         fullText |-> lbls[node.index + 1],
                         value |-> 1,
                         sampleLeaves |-> <<lbls[node.index + 1]>>,
                         type |-> "leaf"],
               ctr |-> nextWorkerNodeId(ctr)]
    ELSE [tree |-> [name |-> [text |-> <<"[Malformed Node]">>, truncated |-> FALSE],
                    fullText |-> <<"Node structure missing index and children.">>,
                    value |-> 1, type |-> "leaf"],
          ctr |-> ctr]

convertAll(nodes, lbls, ctr) ==
    IF nodes = <<>> THEN [trees |-> <<>>, ctr |-> ctr]
    ELSE LET first == convertToD3(Head(nodes), lbls, ctr)
             rest  == convertAll(Tail(nodes), lbls, first.ctr)
         IN  [trees |-> <<first.tree>> \o rest.trees, ctr |-> rest.ctr]

\* n.height ?? n.distance ?? n.dist ?? 0
NodeHeight(n) == IF Has(n, "height") THEN n.height ELSE 0

RECURSIVE collectSubtreesAtCutoff(_, _)
RECURSIVE collectSubtreesOfAll(_, _)

\* the walk that keeps a node above the cutoff and descends into it as well
collectSubtreesKeepingParent(n, cutoffHeight) ==
    IF NodeHeight(n) <= cutoffHeight THEN <<n>>
    ELSE IF HasChildren(n) THEN <<n>> \o collectSubtreesOfAll(n.children, cutoffHeight)
    ELSE <<n>>

collectSubtreesAtCutoff(n, cutoffHeight) ==
    IF NodeHeight(n) <= cutoffHeight THEN <<n>>
    ELSE IF HasChildren(n) THEN collectSubtreesOfAll(n.children, cutoffHeight)
    ELSE <<n>>

collectSubtreesOfAll(nodes, cutoffHeight) ==
    IF nodes = <<>> THEN <<>>
    ELSE collectSubtreesAtCutoff(Head(nodes), cutoffHeight)
         \o collectSubtreesOfAll(Tail(nodes), cutoffHeight)

\* st.sampleLeaves ?? []
SampleLeavesOf(t) == IF Has(t, "sampleLeaves") THEN t.sampleLeaves ELSE <<>>

convertToD3WithCutoff(node, lbls, cutoffHeight, ctr) ==
    LET subtrees == collectSubtreesAtCutoff(node, cutoffHeight)
        converted == convertAll(subtrees, lbls, ctr)
    IN  IF Len(subtrees) > 1
        THEN [tree |-> [id |-> nextWorkerNodeId(converted.ctr),
                        name |-> [text |-> <<"Root (top-level clusters)">>,
                                  count |-> Len(subtrees), truncated |-> FALSE],
                        height |-> cutoffHeight,
                        sampleLeaves |->
                            Take(Flatten(Array([i \in DOMAIN converted.trees |->
                                            SampleLeavesOf(converted.trees[i])])), SampleLimit),
                        clusterKeywords |-> <<>>,
                        clusterLabel |-> [count |-> Len(subtrees), H |-> cutoffHeight],
                        children |-> converted.trees,
                        type |-> "cluster"],
              ctr |-> nextWorkerNodeId(converted.ctr)]
        ELSE convertToD3(node, lbls, ctr)

-----------------------------------------------------------------------------
(* self.onmessage *)

Progress(text) == [type |-> "progress", message |-> text]

NotEnoughData ==
    [type |-> "error",
     error |-> "Not enough data to cluster (need at least 2 segments/words). Try adding more text."]

\* the message of the catch block
Caught == [type |-> "error", error |-> "err.message"]

Success(tree) == [type |-> "success", data |-> tree]

IsTerminal(m) == m.type \in {"success", "error"}

\* segments.length < 2, with fewer than one segment in its place
TooFewNone(segs) == Len(segs) < 1

\* if (segments.length < 2) { post error; return }
TooFew(segs) == Len(segs) < 2

\* a centroid-linkage call in place of the average-linkage one
agnesOptionsCentroid == [method |-> "centroid", isDistanceMatrix |-> TRUE]

\* { method: 'average', isDistanceMatrix: true }
agnesOptions == [method |-> "average", isDistanceMatrix |-> TRUE]

\* options.enableAutoCutoff !== false
autoCutoff(options) ==
    ~(Has(options, "enableAutoCutoff") /\ options.enableAutoCutoff = FALSE)

\* options.cutoffPercentile ?? 0.85
percentileOf(options) ==
    IF Has(options, "cutoffPercentile") THEN options.cutoffPercentile
    ELSE DefaultCutoffPercentile

RECURSIVE MinOf(_)
MinOf(s) == IF Len(s) = 1 THEN s[1] ELSE Min(Head(s), MinOf(Tail(s)))

\* the percentile cutoff alone, whatever the gaps
effectiveCutoffIgnoringGaps(hs, pct) == computeDendrogramCutoff(hs, pct)

\* gaps.length > 0 ? Math.min(cutoff, Math.min(...gaps)) : cutoff
effectiveCutoffOf(hs, pct) ==
    LET cutoff == computeDendrogramCutoff(hs, pct)
        gaps == findHeightGaps(hs, MinGapRatio)
    IN  IF Len(gaps) > 0 THEN Min(cutoff, MinOf(gaps)) ELSE cutoff

Init ==
    /\ pc = "idle"
    /\ req = Empty
    /\ outbox = <<>>
    /\ segments = <<>>
    /\ labels = <<>>
    /\ vectors = <<>>
    /\ matrix = <<>>
    /\ clusterResult = Empty
    /\ heights = <<>>
    /\ percentile = DefaultCutoffPercentile
    /\ effectiveCutoff = 0
    /\ finalTree = Empty
    /\ counter = 0
    /\ ran = {}
    /\ runs = 0
    /\ prevReq = Empty
    /\ prevTree = Empty

\* the run ended with a success message
Succeeded == pc = "done" /\ outbox # <<>> /\ outbox[Len(outbox)].type = "success"

\* the insufficient-data branch without its return: the handler goes on
ReceiveFallingThrough(r) ==
    /\ pc = "idle"
    /\ runs < MaxRuns
    /\ prevReq # Empty => r = prevReq
    /\ runs' = runs + 1
    /\ req' = r
    /\ segments' = Segment(r)
    /\ outbox' = <<Progress("Tokenizing and cleaning text...")>>
                 \o (IF TooFew(Segment(r)) THEN <<NotEnoughData>> ELSE <<>>)
                 \o <<Progress("Calculating similarity matrix...")>>
    /\ pc' = "similarity"
    /\ UNCHANGED <<labels, vectors, matrix, clusterResult, heights, percentile,
                   effectiveCutoff, finalTree, counter, ran, prevReq, prevTree>>

\* A message arrives: lines 527-637, up to the similarity block.  While prevReq is
\* set the caller is resending that request.
Receive(r) ==
    /\ pc = "idle"
    /\ runs < MaxRuns
    /\ prevReq # Empty => r = prevReq
    /\ runs' = runs + 1
    /\ req' = r
    /\ LET segs == Segment(r)
       IN  /\ segments' = segs
           /\ IF TooFew(segs)
              THEN /\ outbox' = <<Progress("Tokenizing and cleaning text..."), NotEnoughData>>
                   /\ pc' = "done"
              ELSE /\ outbox' = <<Progress("Tokenizing and cleaning text..."),
                                  Progress("Calculating similarity matrix...")>>
                   /\ pc' = "similarity"
    /\ UNCHANGED <<labels, vectors, matrix, clusterResult, heights, percentile,
                   effectiveCutoff, finalTree, counter, ran, prevReq, prevTree>>

\* The handler returns: its locals are gone, the counter stays.
Return ==
    /\ pc = "done"
    /\ pc' = "idle"
    /\ req' = Empty
    /\ outbox' = <<>>
    /\ segments' = <<>>
    /\ labels' = <<>>
    /\ vectors' = <<>>
    /\ matrix' = <<>>
    /\ clusterResult' = Empty
    /\ heights' = <<>>
    /\ percentile' = DefaultCutoffPercentile
    /\ effectiveCutoff' = 0
    /\ finalTree' = Empty
    /\ ran' = {}
    /\ prevReq' = Empty
    /\ prevTree' = Empty
    /\ UNCHANGED <<counter, runs>>

\* The handler returns after a success and the caller is about to send the same
\* request again: the request and its tree are kept for comparison.
ReturnBeforeResend ==
    /\ Succeeded
    /\ prevReq = Empty
    /\ pc' = "idle"
    /\ prevReq' = req
    /\ prevTree' = finalTree
    /\ req' = Empty
    /\ outbox' = <<>>
    /\ segments' = <<>>
    /\ labels' = <<>>
    /\ vectors' = <<>>
    /\ matrix' = <<>>
    /\ clusterResult' = Empty
    /\ heights' = <<>>
    /\ percentile' = DefaultCutoffPercentile
    /\ effectiveCutoff' = 0
    /\ finalTree' = Empty
    /\ ran' = {}
    /\ UNCHANGED <<counter, runs>>

\* vectors, matrix and labels of the block become the handler's locals
AssignSimilarity(sim) ==
    /\ vectors' = sim.vectors
    /\ matrix' = sim.matrix
    /\ labels' = sim.labels

\* lines 639-711: the similarity matrix of the mode
ComputeSimilarity ==
    /\ pc = "similarity"
    /\ AssignSimilarity(SimilarityOf(req, segments))
    /\ outbox' = outbox
                 \o (IF req.mode # "word" /\ useEnhanced(req.options)
                     THEN <<Progress("Running enhanced NLP pipeline (lemmatization, n-grams)...")>>
                     ELSE <<>>)
                 \o <<Progress("Running hierarchical clustering...")>>
    /\ ran' = ran \cup {"matrix"}
    /\ pc' = "cluster"
    /\ UNCHANGED <<req, segments, clusterResult, heights, percentile, effectiveCutoff,
                   finalTree, counter, runs, prevReq, prevTree>>

\* lines 713-718
Cluster ==
    /\ pc = "cluster"
    /\ clusterResult' = agnes(matrix, agnesOptions)
    /\ outbox' = Append(outbox, Progress("Generating taxonomy tree..."))
    /\ ran' = ran \cup {"agnes"}
    /\ pc' = "tree"
    /\ UNCHANGED <<req, segments, labels, vectors, matrix, heights, percentile,
                   effectiveCutoff, finalTree, counter, runs, prevReq, prevTree>>

\* lines 720-752: cutoff selection, tree materialization, the success message
Materialize ==
    /\ pc = "tree"
    /\ LET withCutoff == useEnhanced(req.options) /\ autoCutoff(req.options)
           hs == IF withCutoff THEN collectHeights(clusterResult) ELSE <<>>
           pct == percentileOf(req.options)
           cut == effectiveCutoffOf(hs, pct)
           converted == IF withCutoff /\ Len(hs) > 0
                        THEN convertToD3WithCutoff(clusterResult, labels, cut, counter)
                        ELSE convertToD3(clusterResult, labels, counter)
       IN  /\ heights' = hs
           /\ IF withCutoff /\ Len(hs) > 0
              THEN /\ percentile' = pct
                   /\ effectiveCutoff' = cut
                   /\ outbox' = outbox \o <<Progress("Applying dendrogram cutoff..."),
                                            Success(converted.tree)>>
              ELSE /\ UNCHANGED <<percentile, effectiveCutoff>>
                   /\ outbox' = Append(outbox, Success(converted.tree))
           /\ finalTree' = converted.tree
           /\ counter' = converted.ctr
    /\ ran' = ran \cup {"tree"}
    /\ pc' = "done"
    /\ UNCHANGED <<req, segments, labels, vectors, matrix, clusterResult, runs,
                   prevReq, prevTree>>

\* lines 753-755: a library call inside the try block throws
Catch ==
    /\ pc \in {"similarity", "cluster", "tree"}
    /\ outbox' = Append(outbox, Caught)
    /\ pc' = "done"
    /\ UNCHANGED <<req, segments, labels, vectors, matrix, clusterResult, heights,
                   percentile, effectiveCutoff, finalTree, counter, ran, runs,
                   prevReq, prevTree>>

\* lines 690-709 and 753-755: in paragraph or sentence mode tokenizeWithLemmas
\* (nlpCompromise) or nlp.readDoc throws for one unit inside the similarity
\* function; no try/catch surrounds the per-unit call, so the handler's catch
\* block receives the exception
TokenizeThrows ==
    /\ pc = "similarity"
    /\ req.mode # "word"
    /\ outbox' = outbox
                 \o (IF useEnhanced(req.options)
                     THEN <<Progress("Running enhanced NLP pipeline (lemmatization, n-grams)...")>>
                     ELSE <<>>)
                 \o <<Caught>>
    /\ ran' = ran \cup {"tokenizeThrew"}
    /\ pc' = "done"
    /\ UNCHANGED <<req, segments, labels, vectors, matrix, clusterResult, heights,
                   percentile, effectiveCutoff, finalTree, counter, runs,
                   prevReq, prevTree>>

Next ==
    \/ \E r \in Requests : Receive(r)
    \/ ComputeSimilarity
    \/ Cluster
    \/ Materialize
    \/ Catch
    \/ TokenizeThrows
    \/ Return
    \/ ReturnBeforeResend

Spec == Init /\ [][Next]_vars

-----------------------------------------------------------------------------
(* calculateDistanceMatrix over bounded vector lists *)

\* coordinates per vector
Dim == 2
\* vectors per list
MaxVecs == 3

Coords == {-SCALE, 0, SCALE}

InitDistance ==
    /\ pc = "vectors"
    /\ \E n \in 0..MaxVecs : vectors \in [1..n -> [1..Dim -> Coords]]
    /\ req = Empty
    /\ outbox = <<>>
    /\ segments = <<>>
    /\ labels = <<>>
    /\ matrix = <<>>
    /\ clusterResult = Empty
    /\ heights = <<>>
    /\ percentile = DefaultCutoffPercentile
    /\ effectiveCutoff = 0
    /\ finalTree = Empty
    /\ counter = 0
    /\ ran = {}
    /\ runs = 0
    /\ prevReq = Empty
    /\ prevTree = Empty

ApplyDistanceMatrix ==
    /\ pc = "vectors"
    /\ matrix' = calculateDistanceMatrix(vectors)
    /\ ran' = {"matrix"}
    /\ pc' = "matrix"
    /\ UNCHANGED <<req, outbox, segments, labels, vectors, clusterResult, heights,
                   percentile, effectiveCutoff, finalTree, counter, runs, prevReq,
                   prevTree>>

NextDistance == ApplyDistanceMatrix

SpecDistance == InitDistance /\ [][NextDistance]_vars

-----------------------------------------------------------------------------
(* agnes over bounded distance matrices *)

\* units per distance matrix
MaxUnits == 4

Dists == {0, 50, SCALE}

Pairs(n) == {p \in (1..n) \X (1..n) : p[1] < p[2]}

\* the symmetric zero-diagonal matrix with distance d[<<i, j>>] between i < j
MatrixOf(n, d) ==
    Array([i \in 1..n |->
        Array([j \in 1..n |-> IF i = j THEN 0 ELSE d[<<Min(i, j), Max(i, j)>>]])])

InitAgnes ==
    /\ pc = "cluster"
    /\ \E n \in 2..MaxUnits : \E d \in [Pairs(n) -> Dists] : matrix = MatrixOf(n, d)
    /\ req = Empty
    /\ outbox = <<>>
    /\ segments = <<>>
    /\ labels = <<>>
    /\ vectors = <<>>
    /\ clusterResult = Empty
    /\ heights = <<>>
    /\ percentile = DefaultCutoffPercentile
    /\ effectiveCutoff = 0
    /\ finalTree = Empty
    /\ counter = 0
    /\ ran = {"matrix"}
    /\ runs = 0
    /\ prevReq = Empty
    /\ prevTree = Empty

NextAgnes == Cluster

SpecAgnes == InitAgnes /\ [][NextAgnes]_vars

-----------------------------------------------------------------------------
(* the cutoff selector over bounded height lists *)

\* heights per list
MaxHeights == 4

HeightValues == {0, 30, 90, SCALE}

Percentiles == {50, DefaultCutoffPercentile}

InitCutoff ==
    /\ pc = "heights"
    /\ heights \in SeqsUpTo(HeightValues, MaxHeights)
    /\ percentile \in Percentiles
    /\ req = Empty
    /\ outbox = <<>>
    /\ segments = <<>>
    /\ labels = <<>>
    /\ vectors = <<>>
    /\ matrix = <<>>
    /\ clusterResult = Empty
    /\ effectiveCutoff = 0
    /\ finalTree = Empty
    /\ counter = 0
    /\ ran = {}
    /\ runs = 0
    /\ prevReq = Empty
    /\ prevTree = Empty

\* lines 727-737 of self.onmessage
SelectCutoff ==
    /\ pc = "heights"
    /\ effectiveCutoff' = effectiveCutoffOf(heights, percentile)
    /\ ran' = {"cutoff"}
    /\ pc' = "cutoff"
    /\ UNCHANGED <<req, outbox, segments, labels, vectors, matrix, clusterResult,
                   heights, percentile, finalTree, counter, runs, prevReq, prevTree>>

NextCutoff == SelectCutoff

SpecCutoff == InitCutoff /\ [][NextCutoff]_vars

-----------------------------------------------------------------------------
(* the tree materializer over bounded cluster trees *)

\* units per cluster tree
MaxLeaves == 3

Heights == {0, 50, SCALE}

Cutoffs == {-1, 0, 50, 75, SCALE, Infinity}

\* the units' texts, pairwise distinct
UnitLabels == <<SentCars, SentCat, SentDog, SentCatsA, SentCatsB>>

\* the binary trees whose leaves are the units of S, each once
RECURSIVE TreesOver(_)
TreesOver(S) ==
    IF Cardinality(S) = 1 THEN {Leaf(CHOOSE u \in S : TRUE)}
    ELSE LET first == CHOOSE u \in S : \A v \in S : u <= v
         IN  UNION {{Merge(l, r, h) : l \in TreesOver(A), r \in TreesOver(S \ A), h \in Heights} :
                    A \in {X \in SUBSET S : first \in X /\ X # S}}

\* childless nodes that are no unit of n labels: no index, index -1, index n
BadNodes(n) == {[children |-> <<>>, height |-> 0], Leaf(-1), Leaf(n)}

\* tree with the leaf of unit u replaced by node
RECURSIVE Graft(_, _, _)
Graft(tree, u, node) ==
    IF Len(tree.children) > 0
    THEN [tree EXCEPT !.children =
             Array([i \in DOMAIN tree.children |-> Graft(tree.children[i], u, node)])]
    ELSE IF tree.index = u THEN node ELSE tree

\* a cluster tree over n units, whole or with one leaf replaced by a bad node
InputTrees(n) ==
    LET whole == TreesOver(0..(n - 1))
    IN  whole \cup {Graft(t, u, b) : t \in whole, u \in 0..(n - 1), b \in BadNodes(n)}

TreeRequest(n, o) ==
    [text |-> Array([i \in 1..n |-> <<UnitLabels[i]>>]), mode |-> "paragraph", options |-> o]

InitTree ==
    /\ pc = "tree"
    /\ \E n \in 2..MaxLeaves :
          /\ req \in {TreeRequest(n, o) : o \in {NoOptions, [enableAutoCutoff |-> FALSE]}}
          /\ segments = Take(UnitLabels, n)
          /\ labels = Take(UnitLabels, n)
          /\ clusterResult \in InputTrees(n)
    /\ outbox = <<Progress("Tokenizing and cleaning text..."),
                  Progress("Calculating similarity matrix..."),
                  Progress("Running enhanced NLP pipeline (lemmatization, n-grams)..."),
                  Progress("Running hierarchical clustering..."),
                  Progress("Generating taxonomy tree...")>>
    /\ vectors = <<>>
    /\ matrix = <<>>
    /\ heights = <<>>
    /\ percentile = DefaultCutoffPercentile
    /\ effectiveCutoff = 0
    /\ finalTree = Empty
    /\ counter = 0
    /\ ran = {"matrix", "agnes"}
    /\ runs = 1
    /\ prevReq = Empty
    /\ prevTree = Empty

\* convertToD3WithCutoff(clusterResult, labels, c) for a cutoff of the caller's choice
ConvertWithCutoff(c) ==
    /\ pc = "tree"
    /\ LET converted == convertToD3WithCutoff(clusterResult, labels, c, counter)
       IN  /\ finalTree' = converted.tree
           /\ counter' = converted.ctr
    /\ effectiveCutoff' = c
    /\ ran' = ran \cup {"cutoff"}
    /\ pc' = "converted"
    /\ UNCHANGED <<req, outbox, segments, labels, vectors, matrix, clusterResult,
                   heights, percentile, runs, prevReq, prevTree>>

NextTree ==
    \/ Materialize
    \/ \E c \in Cutoffs : ConvertWithCutoff(c)

SpecTree == InitTree /\ [][NextTree]_vars

-----------------------------------------------------------------------------
(* the tree materializer over units of nouns, verbs and an adverb *)

\* units per cluster tree
MaxKeywordLeaves == 3

\* the units' texts: verbs only, a noun with an adverb, nouns, an adverb with a verb
KeywordLabels ==
    << <<"sat", "need">>, <<"cats", "sat", "quickly">>, <<"dog", "cars", "fuel", "cat">>,
       <<"quickly", "use">> >>

KeywordRequest(n, o) ==
    [text |-> Array([i \in 1..n |-> <<KeywordLabels[i]>>]), mode |-> "paragraph", options |-> o]

InitKeywords ==
    /\ pc = "tree"
    /\ \E n \in 2..MaxKeywordLeaves :
          /\ req \in {KeywordRequest(n, o) : o \in {NoOptions, [enableAutoCutoff |-> FALSE]}}
          /\ segments = Take(KeywordLabels, n)
          /\ labels = Take(KeywordLabels, n)
          /\ clusterResult \in InputTrees(n)
    /\ outbox = <<Progress("Tokenizing and cleaning text..."),
                  Progress("Calculating similarity matrix..."),
                  Progress("Running enhanced NLP pipeline (lemmatization, n-grams)..."),
                  Progress("Running hierarchical clustering..."),
                  Progress("Generating taxonomy tree...")>>
    /\ vectors = <<>>
    /\ matrix = <<>>
    /\ heights = <<>>
    /\ percentile = DefaultCutoffPercentile
    /\ effectiveCutoff = 0
    /\ finalTree = Empty
    /\ counter = 0
    /\ ran = {"matrix", "agnes"}
    /\ runs = 1
    /\ prevReq = Empty
    /\ prevTree = Empty

NextKeywords ==
    \/ Materialize
    \/ \E c \in Cutoffs : ConvertWithCutoff(c)

SpecKeywords == InitKeywords /\ [][NextKeywords]_vars

-----------------------------------------------------------------------------
(* word mode over bounded word sequences *)

\* words per text
MaxWords == 4

\* a stop word, two surface forms of one noun stem, a verb and another noun
WordChoices == {"the", "cat", "cats", "sat", "dog"}

WordOptionSets ==
    { NoOptions,
      [nounOnly |-> TRUE],
      [minWordFreq |-> 2],
      [minWordFreq |-> 0, customStopwords |-> <<"cats">>],
      [nounOnly |-> TRUE, minWordFreq |-> 2, customStopwords |-> <<"dog">>] }

\* word-mode requests on a text of one sentence
WordRequests ==
    UNION {{[text |-> << <<s>> >>, mode |-> "word", options |-> o] :
              s \in [1..k -> WordChoices], o \in WordOptionSets} : k \in 0..MaxWords}

NextWords ==
    \/ \E r \in WordRequests : Receive(r)
    \/ ComputeSimilarity

SpecWords == Init /\ [][NextWords]_vars

-----------------------------------------------------------------------------
(* the enhanced pipeline over sentences that hold a glue word *)

\* sentences per text
MaxSentences == 3

SentUse == <<"cats", "use", "fuel">>

GlueSentences == {SentUse, SentCars, SentCatsA, <<"cars", "use", "fuel">>}

GlueOptionSets ==
    { NoOptions,
      [glueWordPenalty |-> 20],
      [glueWordPenalty |-> 100],
      [glueWordPenalty |-> 50, enableNgrams |-> FALSE] }

\* sentence and paragraph requests on a text of one paragraph
GlueRequests ==
    UNION {{[text |-> <<p>>, mode |-> m, options |-> o] :
              p \in [1..k -> GlueSentences], m \in {"sentence", "paragraph"},
              o \in GlueOptionSets} : k \in 0..MaxSentences}

NextGlue ==
    \/ \E r \in GlueRequests : Receive(r)
    \/ ComputeSimilarity

SpecGlue == Init /\ [][NextGlue]_vars

-----------------------------------------------------------------------------
(* the enhanced pipeline over sentences of adjectives and singular nouns *)

\* words of the first sentence
MaxPhraseWords == 5

\* an adjective and two nouns that are their own lemmas
PhraseWords == {"small", "cat", "fuel"}

PhraseOptionSets == { NoOptions, [nounPhraseBoost |-> 200] }

\* sentence requests on a sentence of phrase words followed by "cars need fuel"
PhraseRequests ==
    UNION {{[text |-> << <<s, SentCars>> >>, mode |-> "sentence", options |-> o] :
              s \in [1..k -> PhraseWords], o \in PhraseOptionSets} : k \in 1..MaxPhraseWords}

NextPhrases ==
    \/ \E r \in PhraseRequests : Receive(r)
    \/ ComputeSimilarity

SpecPhrases == Init /\ [][NextPhrases]_vars

-----------------------------------------------------------------------------
(* Properties *)

\* the childless nodes of a cluster tree, left to right
RECURSIVE ClusterLeaves(_)
ClusterLeaves(node) ==
    IF "children" \in DOMAIN node /\ node.children # <<>>
    THEN Flatten(Array([i \in DOMAIN node.children |-> ClusterLeaves(node.children[i])]))
    ELSE <<node>>

\* a childless node that stands for one of n units
IsUnitLeaf(node, n) == "index" \in DOMAIN node /\ node.index >= 0 /\ node.index < n

\* every childless node is a unit and every unit is under exactly one of them
WellFormed(tree, n) ==
    LET leaves == ClusterLeaves(tree)
    IN  /\ \A k \in DOMAIN leaves : IsUnitLeaf(leaves[k], n)
        /\ \A u \in 0..(n - 1) :
              Cardinality({k \in DOMAIN leaves : leaves[k].index = u}) = 1

\* the fullText of the leaves of an output tree, left to right
RECURSIVE LeafTexts(_)
LeafTexts(t) ==
    IF t.type = "cluster"
    THEN Flatten(Array([i \in DOMAIN t.children |-> LeafTexts(t.children[i])]))
    ELSE <<t.fullText>>

\* the ids of an output tree, parent before children
RECURSIVE Ids(_)
Ids(t) ==
    (IF "id" \in DOMAIN t THEN <<t.id>> ELSE <<>>)
    \o (IF t.type = "cluster"
        THEN Flatten(Array([i \in DOMAIN t.children |-> Ids(t.children[i])]))
        ELSE <<>>)

\* an output tree with the id field of every node removed
RECURSIVE WithoutIds(_)
WithoutIds(t) ==
    MapOf([f \in DOMAIN t \ {"id"} |->
             IF f = "children"
             THEN Array([i \in DOMAIN t.children |-> WithoutIds(t.children[i])])
             ELSE t[f]])

\* no node is lower than one of its children
RECURSIVE MonotoneHeights(_)
MonotoneHeights(node) ==
    \A i \in DOMAIN node.children :
        /\ node.children[i].height <= node.height
        /\ MonotoneHeights(node.children[i])

\* C1: calculateDistanceMatrix returns an N x N matrix that is symmetric and has
\* a zero diagonal, for every list of N equal-length vectors.
C1_SymmetricZeroDiagonal ==
    pc = "matrix" =>
        /\ Len(matrix) = Len(vectors)
        /\ \A i \in DOMAIN matrix :
              /\ Len(matrix[i]) = Len(vectors)
              /\ matrix[i][i] = 0
              /\ \A j \in DOMAIN matrix : matrix[i][j] = matrix[j][i]

\* three vectors with pairwise different, non-zero distances
C1_Witness ==
    /\ pc = "matrix"
    /\ Len(vectors) = 3
    /\ matrix[1][2] > 0
    /\ matrix[1][3] > matrix[1][2]
    /\ matrix[2][3] > matrix[1][3]

\* C2: every entry of the distance matrix of a run lies in [0, 1], in every
\* pipeline variant, negative TF-IDF coordinates included.
C2_DistancesInUnitInterval ==
    "matrix" \in ran =>
        \A i \in DOMAIN matrix : \A j \in DOMAIN matrix[i] :
            0 <= matrix[i][j] /\ matrix[i][j] <= SCALE

\* a basic TF-IDF run with a negative coordinate and a distance strictly inside (0, 1)
C2_Witness ==
    /\ "matrix" \in ran
    /\ req.mode # "word"
    /\ ~useEnhanced(req.options)
    /\ \E d \in DOMAIN vectors : \E i \in DOMAIN vectors[d] : vectors[d][i] < 0
    /\ \E i \in DOMAIN matrix : \E j \in DOMAIN matrix :
          0 < matrix[i][j] /\ matrix[i][j] < SCALE

C4_EveryUnitOnce ==
    (pc \in {"done", "converted"} /\ WellFormed(clusterResult, Len(labels))) =>
        /\ Len(LeafTexts(finalTree)) = Len(labels)
        /\ \A i \in DOMAIN labels : Count(LeafTexts(finalTree), labels[i]) = 1

\* a forest of at least two subtrees, one of them a cluster, over three units
C4_Witness ==
    /\ pc = "converted"
    /\ WellFormed(clusterResult, Len(labels))
    /\ Len(labels) = 3
    /\ "clusterLabel" \in DOMAIN finalTree
    /\ Len(finalTree.children) = 2
    /\ \E i \in DOMAIN finalTree.children : finalTree.children[i].type = "cluster"

\* C5: in the tree of average-linkage clustering over a symmetric zero-diagonal
\* distance matrix no internal node is lower than one of its children.
C5_MonotoneMergeHeights ==
    "agnes" \in ran => MonotoneHeights(clusterResult)

\* four units; the root is strictly above a child that is a merge above height 0
C5_Witness ==
    /\ "agnes" \in ran
    /\ Len(matrix) = 4
    /\ \E i \in DOMAIN clusterResult.children :
          /\ Len(clusterResult.children[i].children) = 2
          /\ clusterResult.children[i].height > 0
          /\ clusterResult.children[i].height < clusterResult.height

\* the messages of a run: progress messages, then at most one terminal message,
\* which is there once the handler is done
OutboxProtocol ==
    /\ \A i \in 1..(Len(outbox) - 1) : outbox[i].type = "progress"
    /\ pc = "done" => outbox # <<>> /\ IsTerminal(outbox[Len(outbox)])
    /\ pc \in {"similarity", "cluster", "tree"} =>
          \A i \in DOMAIN outbox : outbox[i].type = "progress"

\* C6: a run posts progress messages and then exactly one terminal message, on
\* every path, the insufficient-data return and the catch block included; once
\* the terminal message is posted the handler posts nothing more for the run.
C6_OneTerminalMessage ==
    /\ []OutboxProtocol
    /\ [][pc = "done" => outbox' = <<>>]_vars

\* a run through the enhanced pipeline and the cutoff that ended in success
C6_Witness ==
    /\ pc = "done"
    /\ Len(outbox) = 6
    /\ outbox[6].type = "success"

\* C7: with fewer than 2 units the run ends with the not-enough-data error, posts
\* no success, and runs neither the distance matrix nor clustering nor the tree.
C7_NotEnoughData ==
    (req # Empty /\ Len(segments) < 2) =>
        /\ pc = "done"
        /\ outbox = <<Progress("Tokenizing and cleaning text..."), NotEnoughData>>
        /\ ran = {}
        /\ matrix = <<>>
        /\ clusterResult = Empty
        /\ finalTree = Empty

\* a word-mode run that is left with one unit
C7_Witness ==
    /\ pc = "done"
    /\ req # Empty
    /\ req.mode = "word"
    /\ Len(segments) = 1

\* "Cats are mammals. Cats are small mammals." and "Cars need fuel.", sentence mode
ScenarioRequest ==
    [text |-> << <<SentCatsA, SentCatsB>>, <<SentCars>> >>, mode |-> "sentence",
     options |-> NoOptions]

\* C8: in the scenario the two near-duplicate sentences are merged first, at a
\* height strictly below the height at which the unrelated sentence joins them.
C8_NearDuplicatesMergeLower ==
    (req = ScenarioRequest /\ "agnes" \in ran) =>
        \E i \in DOMAIN clusterResult.children :
            LET pair == clusterResult.children[i]
            IN  /\ Len(pair.children) = 2
                /\ {pair.children[1].index, pair.children[2].index} = {0, 1}
                /\ pair.height < clusterResult.height

\* C9: when a height L > 0 is followed by a height H >= 1.5 L and the percentile
\* cutoff is at H or above, the effective cutoff is at most 1.5 L.
C9_CutoffBelowGap ==
    pc = "cutoff" =>
        LET sorted == SortAscending(heights)
        IN  \A i \in 1..(Len(sorted) - 1) :
                ( /\ sorted[i] > 0
                  /\ sorted[i + 1] * SCALE >= MinGapRatio * sorted[i]
                  /\ computeDendrogramCutoff(heights, percentile) >= sorted[i + 1] )
                => effectiveCutoff * SCALE <= MinGapRatio * sorted[i]

\* C10: a childless node without a valid unit index becomes one marker leaf of
\* its kind, every unit leaf is materialized with its label, and the run ends in
\* success.
C10_MarkersInline ==
    pc = "done" =>
        LET leaves == ClusterLeaves(clusterResult)
            texts  == LeafTexts(finalTree)
            n      == Len(labels)
        IN  /\ outbox[Len(outbox)] = Success(finalTree)
            /\ Len(texts) = Len(leaves)
            /\ \A i \in DOMAIN labels :
                  Count(texts, labels[i])
                  = Cardinality({k \in DOMAIN leaves :
                                   IsUnitLeaf(leaves[k], n) /\ leaves[k].index = i - 1})
            /\ Count(texts, <<"Invalid index from clustering.">>)
               = Cardinality({k \in DOMAIN leaves :
                                "index" \in DOMAIN leaves[k] /\ ~IsUnitLeaf(leaves[k], n)})
            /\ Count(texts, <<"Node structure missing index and children.">>)
               = Cardinality({k \in DOMAIN leaves : "index" \notin DOMAIN leaves[k]})

\* three units, one leaf out of range: a marker beside two materialized leaves
C10_Witness ==
    /\ pc = "done"
    /\ Len(labels) = 3
    /\ finalTree.type = "cluster"
    /\ Count(LeafTexts(finalTree), <<"Invalid index from clustering.">>) = 1
    /\ Cardinality({i \in DOMAIN labels : Count(LeafTexts(finalTree), labels[i]) = 1}) = 2

\* C11: when tokenization or tagging throws for one unit in paragraph or sentence
\* mode, the run still ends with a success message.
C11_TokenizeFailureRecovered ==
    (pc = "done" /\ "tokenizeThrew" \in ran) => outbox[Len(outbox)].type = "success"

\* the nodes of a cluster tree that have children
RECURSIVE InternalNodes(_)
InternalNodes(node) ==
    IF "children" \in DOMAIN node /\ node.children # <<>>
    THEN <<node>> \o Flatten(Array([i \in DOMAIN node.children |->
                                      InternalNodes(node.children[i])]))
    ELSE <<>>

\* C12: clustering N >= 2 units yields one tree of N - 1 merges, each with exactly
\* two children, over N leaves, one per unit index.
C12_BinaryTreeOfAllUnits ==
    "agnes" \in ran =>
        LET n == Len(matrix)
            internal == InternalNodes(clusterResult)
        IN  /\ Len(internal) = n - 1
            /\ \A k \in DOMAIN internal : Len(internal[k].children) = 2
            /\ Len(ClusterLeaves(clusterResult)) = n
            /\ WellFormed(clusterResult, n)

\* four units merged pairwise: a root over two merges
C12_Witness ==
    /\ "agnes" \in ran
    /\ Len(matrix) = 4
    /\ Len(InternalNodes(clusterResult)) = 3
    /\ \A i \in DOMAIN clusterResult.children :
          Len(clusterResult.children[i].children) = 2

\* the lowest unit index under a cluster node
MinIndex(node) ==
    LET leaves == ClusterLeaves(node)
    IN  CHOOSE i \in {leaves[k].index : k \in DOMAIN leaves} :
            \A k \in DOMAIN leaves : i <= leaves[k].index

\* the merges that led to the cluster tree of the state
StepsOfRun ==
    AgnesSteps(Array([i \in DOMAIN matrix |-> [node |-> Leaf(i - 1), size |-> 1]]),
               matrix, agnesOptions.method)

\* two different pairs of active clusters are at the minimum distance
TiedStep(st) ==
    \E q \in Pairs(Len(st.clusters)) :
        /\ q # st.pair
        /\ st.D[q[1]][q[2]] = st.D[st.pair[1]][st.pair[2]]

\* C13: every merge joins a pair of active clusters at the minimum linkage
\* distance, and among the pairs at that minimum the one lowest in original index
\* order; the last merge is the tree of the run.
C13_MinimumPairLowestIndex ==
    "agnes" \in ran =>
        LET steps == StepsOfRun
        IN  /\ Len(steps) = Len(matrix) - 1
            /\ steps[Len(steps)].merged = clusterResult
            /\ \A k \in DOMAIN steps :
                  LET st == steps[k]
                      a  == st.pair[1]
                      b  == st.pair[2]
                      Low(c) == MinIndex(st.clusters[c].node)
                  IN  /\ st.pair \in Pairs(Len(st.clusters))
                      /\ st.merged = Merge(st.clusters[a].node, st.clusters[b].node,
                                           st.D[a][b])
                      /\ \A q \in Pairs(Len(st.clusters)) :
                            /\ st.D[a][b] <= st.D[q[1]][q[2]]
                            /\ st.D[a][b] = st.D[q[1]][q[2]] =>
                                  \/ Low(a) < Low(q[1])
                                  \/ Low(a) = Low(q[1]) /\ Low(b) <= Low(q[2])

\* four units with a tie at the first merge and a tie at a later merge, where one
\* of the tied clusters is itself a merge
C13_Witness ==
    /\ "agnes" \in ran
    /\ Len(matrix) = 4
    /\ TiedStep(StepsOfRun[1])
    /\ TiedStep(StepsOfRun[2])
    /\ StepsOfRun[2].D[1][2] > 0

\* the nodes of an output tree in the order in which convertToD3 returns them:
\* the children of a cluster, left to right, before the cluster itself
RECURSIVE Emitted(_)
Emitted(t) ==
    IF t.type = "cluster"
    THEN Flatten(Array([i \in DOMAIN t.children |-> Emitted(t.children[i])])) \o <<t>>
    ELSE <<t>>

\* C14: every node of the output tree of a run carries an id, markers for
\* malformed nodes included, and the ids increase strictly in order of emission
\* (so they are pairwise distinct).
C14_EveryNodeIncreasingId ==
    pc \in {"done", "converted"} =>
        LET nodes == Emitted(finalTree)
        IN  /\ \A k \in DOMAIN nodes : "id" \in DOMAIN nodes[k]
            /\ \A k \in 1..(Len(nodes) - 1) : nodes[k].id < nodes[k + 1].id

\* the position of the first occurrence of x in s
FirstIndex(s, x) == CHOOSE i \in DOMAIN s : s[i] = x /\ \A j \in 1..(i - 1) : s[j] # x

Surviving(r) ==
    SelectSeq(Flatten(Flatten(r.text)),
              LAMBDA w : /\ ~StopWordFlag(w)
                         /\ ~("customStopwords" \in DOMAIN r.options
                              /\ \E k \in DOMAIN r.options.customStopwords :
                                    r.options.customStopwords[k] = w)
                         /\ ("nounOnly" \in DOMAIN r.options /\ r.options.nounOnly)
                               => WinkPos(w) \in {"NOUN", "NUM"})

\* the number of surviving words of stem s
StemCount(r, s) ==
    LET words == Surviving(r)
    IN  Cardinality({k \in DOMAIN words : Stem(words[k]) = s})

\* the position of the first surviving word of stem s
FirstOfStem(r, s) ==
    LET words == Surviving(r)
    IN  CHOOSE k \in DOMAIN words :
            Stem(words[k]) = s /\ \A j \in 1..(k - 1) : Stem(words[j]) # s

GlueWeightsAre(docs, penalty) ==
    \A d \in DOMAIN docs : \A i \in DOMAIN docs[d].tokens :
        LET t == docs[d].tokens[i]
        IN  (t.lemma \in GLUE_WORDS /\ ~t.isNounPhrase) => t.weight = penalty

\* C17: in an enhanced run the weight of a glue-word token is the request's
\* glueWordPenalty (0.5 when the option is absent), so that runs differing only
\* in glueWordPenalty weigh glue words differently.
C17_GlueWeightIsRequestedPenalty ==
    (pc = "cluster" /\ req.mode # "word" /\ useEnhanced(req.options)) =>
        GlueWeightsAre(
            processDocumentsEnhanced(segments, enhancedOptions(req.options)).processedDocs,
            IF Has(req.options, "glueWordPenalty") THEN req.options.glueWordPenalty
            ELSE GluePenalty)

\* the element at index idx (from 0) of the heights in ascending order
KthSmallest(hs, idx) ==
    CHOOSE x \in Range(hs) :
        /\ Cardinality({i \in DOMAIN hs : hs[i] < x}) <= idx
        /\ idx < Cardinality({i \in DOMAIN hs : hs[i] <= x})

\* the percentile cutoff of n >= 1 heights: index min(floor(n * p), n - 1)
PercentileCutoff(hs, pct) ==
    KthSmallest(hs, Min((Len(hs) * pct) \div SCALE, Len(hs) - 1))

\* C18: the effective cutoff is the percentile cutoff when no gap is detected,
\* and otherwise the smaller of the percentile cutoff and the smallest detected
\* gap height; the percentile cutoff is the element at index
\* min(floor(n * p), n - 1) of the heights in ascending order.
C18_EffectiveCutoffIsMinOfPercentileAndGap ==
    (pc = "cutoff" /\ Len(heights) > 0) =>
        LET gaps == Range(findHeightGaps(heights, MinGapRatio))
        IN  IF gaps = {}
            THEN effectiveCutoff = PercentileCutoff(heights, percentile)
            ELSE /\ effectiveCutoff <= PercentileCutoff(heights, percentile)
                 /\ \A g \in gaps : effectiveCutoff <= g
                 /\ effectiveCutoff \in gaps \cup {PercentileCutoff(heights, percentile)}

\* a gap below the percentile cutoff: heights 0.3, 0.9, 1, 1 at the 85th percentile
C18_Witness ==
    /\ pc = "cutoff"
    /\ heights = <<SCALE, 30, SCALE, 90>>
    /\ percentile = DefaultCutoffPercentile
    /\ PercentileCutoff(heights, percentile) = SCALE
    /\ effectiveCutoff = 90

\* A node of a cluster tree is addressed by its path: the child indexes from the root.
RECURSIVE Paths(_)
Paths(n) ==
    {<<>>} \cup (IF HasChildren(n)
                 THEN UNION {{<<i>> \o p : p \in Paths(n.children[i])} : i \in DOMAIN n.children}
                 ELSE {})

RECURSIVE NodeAt(_, _)
NodeAt(n, p) == IF p = <<>> THEN n ELSE NodeAt(n.children[Head(p)], Tail(p))

\* p addresses a proper ancestor of the node at q
IsAncestor(p, q) == Len(p) < Len(q) /\ SubSeq(q, 1, Len(p)) = p

\* p comes before q in a depth-first left-to-right walk, neither above the other
PathBefore(p, q) ==
    \E k \in 1..Min(Len(p), Len(q)) :
        /\ SubSeq(p, 1, k - 1) = SubSeq(q, 1, k - 1)
        /\ p[k] < q[k]

RECURSIVE InWalkOrder(_)
InWalkOrder(S) ==
    IF S = {} THEN <<>>
    ELSE LET first == CHOOSE p \in S : \A q \in S \ {p} : PathBefore(p, q)
         IN  <<first>> \o InWalkOrder(S \ {first})

\* the nodes at or below the cutoff all of whose ancestors are above it
AtCutoff(tree, c) ==
    {p \in Paths(tree) :
        /\ NodeHeight(NodeAt(tree, p)) <= c
        /\ \A q \in Paths(tree) : IsAncestor(q, p) => NodeHeight(NodeAt(tree, q)) > c}

\* the collected subtree roots are the nodes at the paths of S, in walk order
CollectedAre(collected, tree, S) ==
    /\ \A p, q \in S : ~IsAncestor(p, q)
    /\ collected = Array([i \in 1..Cardinality(S) |-> NodeAt(tree, InWalkOrder(S)[i])])

\* C19: for a cutoff the handler can pass (one of the collected heights, never
\* negative) the subtree roots collected at the cutoff are exactly the nodes
\* whose height is at most the cutoff and whose ancestors are all above it, none
\* a descendant of another, in depth-first left-to-right order.
C19_CollectedAreNodesAtCutoff ==
    (pc = "converted" /\ effectiveCutoff >= 0) =>
        CollectedAre(collectSubtreesAtCutoff(clusterResult, effectiveCutoff),
                     clusterResult, AtCutoff(clusterResult, effectiveCutoff))

\* a root above the cutoff over a merge at the cutoff and a unit: two subtree roots
C19_Witness ==
    /\ pc = "converted"
    /\ effectiveCutoff = 50
    /\ clusterResult = Merge(Merge(Leaf(0), Leaf(1), 50), Leaf(2), SCALE)
    /\ collectSubtreesAtCutoff(clusterResult, effectiveCutoff)
       = <<Merge(Leaf(0), Leaf(1), 50), Leaf(2)>>

\* the output root is a pseudo-root over the K converted subtrees, labelled with K
IsPseudoRootOver(root, subtrees, lbls) ==
    /\ root.type = "cluster"
    /\ root.children = convertAll(subtrees, lbls, 0).trees
    /\ Len(root.children) = Len(subtrees)
    /\ root.name.count = Len(subtrees)
    /\ root.clusterLabel.count = Len(subtrees)

\* C20: when more than one subtree root survives the cutoff the output root is a
\* pseudo-root whose children are exactly the K surviving subtrees, that carries
\* no merge height of its own and whose label states K; when one survives the
\* output is convertToD3 of the unmodified cluster tree.
C20_PseudoRootWithoutHeight ==
    (pc = "converted" /\ effectiveCutoff >= 0) =>
        IF Len(collectSubtreesAtCutoff(clusterResult, effectiveCutoff)) > 1
        THEN /\ IsPseudoRootOver(finalTree,
                                 collectSubtreesAtCutoff(clusterResult, effectiveCutoff), labels)
             /\ ~Has(finalTree, "height")
        ELSE finalTree = convertToD3(clusterResult, labels, 0).tree

\* the run reached the cutoff block: enhanced pipeline and automatic cutoff on
CutoffRun ==
    /\ "tree" \in ran
    /\ useEnhanced(req.options)
    /\ autoCutoff(req.options)

\* C21: the height list the cutoff is computed from holds exactly one entry per
\* internal node of the cluster tree, its merge height (N - 1 entries for N
\* units), and no entry for a leaf.
C21_HeightsOfInternalNodesOnly ==
    CutoffRun =>
        /\ Len(heights) = Len(segments) - 1
        /\ heights = Array([k \in DOMAIN InternalNodes(clusterResult) |->
                              InternalNodes(clusterResult)[k].height])

\* C22: with default options the automatic cutoff is applied only in paragraph
\* and sentence modes: a word-mode run with default options does not enter the
\* cutoff block and returns the unpruned cluster tree under its single root.
C22_NoCutoffInWordMode ==
    (Succeeded /\ req.mode = "word" /\ req.options = NoOptions) =>
        /\ ~Includes(outbox, Progress("Applying dendrogram cutoff..."))
        /\ WithoutIds(finalTree) = WithoutIds(convertToD3(clusterResult, labels, 0).tree)

\* the number of documents a term occurs in
DocFreq(docs, t) == Cardinality({d \in DOMAIN docs : Includes(docs[d], t)})

\* the terms in at least one document and in at most 95% of the documents
KeptTerms(docs) ==
    {t \in Range(Flatten(docs)) :
        DocFreq(docs, t) >= 1 /\ DocFreq(docs, t) * 100 <= 95 * Len(docs)}

\* the kept terms in the order in which the documents first show them
KeptInFirstSeenOrder(docs) ==
    LET kept == KeptTerms(docs)
        flat == Flatten(docs)
        Column(t) == 1 + Cardinality({u \in kept : FirstIndex(flat, u) < FirstIndex(flat, t)})
    IN  Array([k \in 1..Cardinality(kept) |-> CHOOSE t \in kept : Column(t) = k])

\* every vector has one coordinate per kept term, in first-seen order
VectorsOverKeptTerms(vecs, docs, weights, normalize) ==
    /\ Len(vecs) = Len(docs)
    /\ \A d \in DOMAIN vecs :
          /\ Len(vecs[d]) = Cardinality(KeptTerms(docs))
          /\ vecs[d] = calculateTfIdfVector(docs[d], docs, KeptInFirstSeenOrder(docs),
                                            weights, normalize)

\* the vocabularies of the documents of an enhanced run
DocVocabularies(processed) ==
    Array([d \in DOMAIN processed.processedDocs |-> processed.processedDocs[d].vocabulary])

VectorsOfProcessed(vecs, processed, normalize) ==
    VectorsOverKeptTerms(vecs, DocVocabularies(processed), processed.tokenWeights, normalize)

\* the run computed its vectors with the enhanced pipeline
EnhancedRun ==
    /\ "matrix" \in ran
    /\ req.mode # "word"
    /\ useEnhanced(req.options)

\* C23: in the enhanced pipeline the vocabulary of the vectors is exactly the
\* terms with df >= 1 and df / N <= 0.95, in first-seen order, and every vector
\* has one coordinate per vocabulary term, in vocabulary order.
C23_VocabularyFilteredByDf ==
    EnhancedRun =>
        VectorsOfProcessed(vectors,
                           processDocumentsEnhanced(segments, enhancedOptions(req.options)),
                           enhancedOptions(req.options).normalizeVectors)

\* the processed documents drop a term and keep one with a non-zero coordinate
DropsAndKeeps(vecs, docs) ==
    /\ \E t \in Range(Flatten(docs)) : t \notin KeptTerms(docs)
    /\ Cardinality(KeptTerms(docs)) >= 2
    /\ \E d \in DOMAIN vecs : \E k \in DOMAIN vecs[d] : vecs[d][k] # 0

\* a term in every unit is dropped and the vectors range over the rest
C23_Witness ==
    /\ EnhancedRun
    /\ DropsAndKeeps(vectors,
                     DocVocabularies(processDocumentsEnhanced(segments,
                                                              enhancedOptions(req.options))))

\* token j lies inside a window of 2..4 lemmas that is one of the phrases
InsidePhrase(tokens, phrases, j) ==
    \E i \in DOMAIN tokens : \E len \in 2..4 :
        /\ i <= j /\ j < i + len
        /\ i + len - 1 <= Len(tokens)
        /\ Includes(phrases, [k \in 1..len |-> tokens[i + k - 1].lemma])

\* a token inside a phrase is flagged and boosted once; the others are untouched
BoostedOnce(before, after, phrases, boost) ==
    /\ Len(after) = Len(before)
    /\ \A j \in DOMAIN before :
          IF InsidePhrase(before, phrases, j)
          THEN /\ after[j].isNounPhrase
               /\ after[j].weight = (before[j].weight * boost) \div SCALE
          ELSE after[j] = before[j]

\* C24: after markNounPhraseTokens every token inside a matched noun phrase is
\* flagged and weighs its prior weight times the boost, applied once even when
\* matched spans overlap; every other token keeps its weight and flag.
C24_NounPhraseBoostOnce ==
    EnhancedRun =>
        \A d \in DOMAIN segments :
            BoostedOnce(tokenizeWithLemmas(segments[d]),
                        markNounPhraseTokens(tokenizeWithLemmas(segments[d]),
                                             extractNounPhrases(segments[d]),
                                             enhancedOptions(req.options).nounPhraseBoost),
                        extractNounPhrases(segments[d]),
                        enhancedOptions(req.options).nounPhraseBoost)

\* the weights of the occurrences of a lemma in the processed documents
OccurrenceWeights(processed, lemma) ==
    LET flat == Flatten(Array([d \in DOMAIN processed.processedDocs |->
                                 processed.processedDocs[d].tokens]))
        hits == SelectSeq(flat, LAMBDA t : t.lemma = lemma)
    IN  Array([k \in DOMAIN hits |-> hits[k].weight])

Abs(x) == IF x < 0 THEN -x ELSE x

\* every lemma's global weight is the mean of its occurrences' weights, to the
\* last digit kept (one hundredth)
WeightsAreMeans(processed) ==
    \A key \in DOMAIN processed.tokenWeights :
        (\A g \in DOMAIN processed.ngrams : processed.ngrams[g].joined # key) =>
            LET ws == OccurrenceWeights(processed, key)
            IN  /\ Len(ws) > 0
                /\ Abs(processed.tokenWeights[key] * Len(ws) - SumSeq(ws)) <= Len(ws)

\* C25: for every lemma the weight in the global token-weight map returned by
\* processDocumentsEnhanced is the arithmetic mean of the weights of all the
\* occurrences of the lemma across the units, however many they are.
C25_GlobalWeightIsMean ==
    (EnhancedRun /\ enhancedOptions(req.options).enableLemmatization) =>
        WeightsAreMeans(processDocumentsEnhanced(segments, enhancedOptions(req.options)))

\* n-gram g matches the lemmas from position i on
MatchesAt(lemmas, i, g) ==
    /\ i + Len(g.tokens) - 1 <= Len(lemmas)
    /\ SubSeq(lemmas, i, i + Len(g.tokens) - 1) = g.tokens

\* the length of the longest n-gram that matches at position i, 0 when none does
LongestAt(lemmas, i, ngrams) ==
    LET lens == {Len(ngrams[g].tokens) : g \in {h \in DOMAIN ngrams : MatchesAt(lemmas, i, ngrams[h])}}
    IN  IF lens = {} THEN 0 ELSE CHOOSE n \in lens : \A m \in lens : m <= n

\* left to right, the longest match at each position joined, else the lemma
RECURSIVE GreedyLongest(_, _, _)
GreedyLongest(lemmas, i, ngrams) ==
    IF i > Len(lemmas) THEN <<>>
    ELSE LET w == LongestAt(lemmas, i, ngrams)
         IN  IF w = 0 THEN <<lemmas[i]>> \o GreedyLongest(lemmas, i + 1, ngrams)
             ELSE <<JoinUnderscore(SubSeq(lemmas, i, i + w - 1))>>
                  \o GreedyLongest(lemmas, i + w, ngrams)

\* every term that is the joined form of an n-gram replaced by the n-gram's tokens
ExpandNgrams(terms, ngrams) ==
    Flatten(Array([k \in DOMAIN terms |->
        IF \E g \in DOMAIN ngrams : ngrams[g].joined = terms[k]
        THEN ngrams[CHOOSE g \in DOMAIN ngrams : ngrams[g].joined = terms[k]].tokens
        ELSE <<terms[k]>>]))

\* the lemmas of a processed document
LemmasOf(doc) == Array([i \in DOMAIN doc.tokens |-> doc.tokens[i].lemma])

GreedyNonOverlapping(processed) ==
    \A d \in DOMAIN processed.processedDocs :
        LET doc == processed.processedDocs[d]
        IN  /\ doc.vocabulary = GreedyLongest(LemmasOf(doc), 1, processed.ngrams)
            /\ ExpandNgrams(doc.vocabulary, processed.ngrams) = LemmasOf(doc)

\* the run detected n-grams over lemmas
NgramRun ==
    /\ EnhancedRun
    /\ enhancedOptions(req.options).enableNgrams
    /\ enhancedOptions(req.options).enableLemmatization

\* C26: applyNgramsToDocument scans the lemmas left to right and replaces at each
\* position the longest n-gram that matches there by its joined form, without
\* overlap; expanding the joined n-grams of the result gives back the lemmas.
C26_GreedyLongestNgrams ==
    NgramRun =>
        GreedyNonOverlapping(processDocumentsEnhanced(segments, enhancedOptions(req.options)))

\* a document where a bigram and a trigram match at one position and the result
\* holds the trigram's joined form
TrigramOverBigram(processed) ==
    \E d \in DOMAIN processed.processedDocs :
        LET doc == processed.processedDocs[d]
        IN  /\ LongestAt(LemmasOf(doc), 1, processed.ngrams) = 3
            /\ \E g \in DOMAIN processed.ngrams :
                  /\ Len(processed.ngrams[g].tokens) = 2
                  /\ MatchesAt(LemmasOf(doc), 1, processed.ngrams[g])
            /\ doc.vocabulary[1] = JoinUnderscore(SubSeq(LemmasOf(doc), 1, 3))
            /\ doc.vocabulary[1] = "cat_be_mammal"

C26_Witness ==
    /\ NgramRun
    /\ TrigramOverBigram(processDocumentsEnhanced(segments, enhancedOptions(req.options)))

\* the nodes of an output tree, parent before children
RECURSIVE OutputNodes(_)
OutputNodes(t) ==
    <<t>> \o (IF t.type = "cluster"
              THEN Flatten(Array([i \in DOMAIN t.children |-> OutputNodes(t.children[i])]))
              ELSE <<>>)

\* the texts of the unit leaves under an output node, left to right
RECURSIVE UnitTexts(_)
UnitTexts(t) ==
    IF t.type = "cluster"
    THEN Flatten(Array([i \in DOMAIN t.children |-> UnitTexts(t.children[i])]))
    ELSE IF "id" \in DOMAIN t THEN <<t.fullText>> ELSE <<>>

\* an output node that stands for a merge of the cluster tree
IsMergeNode(t) == t.type = "cluster" /\ "count" \notin DOMAIN t.name

\* the token is tagged noun or adjective
NounOrAdjective(w) == WinkPos(w) \in {"NOUN", "PROPN", "ADJ"}

\* the keywords of a node are the first three noun or adjective tokens of the
\* ranked list, or the first three ranked tokens when none is so tagged, and the
\* label is null exactly without keywords
KeywordsFromRanked(t, ranked) ==
    /\ Len(t.clusterKeywords) <= 3
    /\ IF \E k \in DOMAIN ranked : NounOrAdjective(ranked[k])
       THEN /\ \A k \in DOMAIN t.clusterKeywords : NounOrAdjective(t.clusterKeywords[k])
            /\ t.clusterKeywords = Take(SelectSeq(ranked, NounOrAdjective), 3)
       ELSE t.clusterKeywords = Take(ranked, 3)
    /\ (t.clusterLabel = Null) <=> (t.clusterKeywords = <<>>)

\* C27: every node of the output tree that stands for a merge has at most 3
\* keywords in rank order: noun or adjective tokens only when a ranked token is
\* so tagged, else the first 3 ranked tokens; its label is null exactly when it
\* has no keywords.
C27_KeywordsNounOrAdjective ==
    (pc \in {"converted", "done"} /\ finalTree # Empty) =>
        \A k \in DOMAIN OutputNodes(finalTree) :
            IsMergeNode(OutputNodes(finalTree)[k]) =>
                KeywordsFromRanked(OutputNodes(finalTree)[k],
                                   Candidates(TokenBuckets(UnitTexts(OutputNodes(finalTree)[k]))))

\* every id of the first tree is below every id of the second
IdsBelow(first, second) ==
    \A i \in DOMAIN Ids(first) : \A j \in DOMAIN Ids(second) : Ids(first)[i] < Ids(second)[j]

\* a step never lowers the counter, and a tree it produces holds only ids issued
\* in that step: above the counter before it and up to the counter after it
CounterStep ==
    /\ counter' >= counter
    /\ (finalTree' # Empty /\ finalTree' # finalTree) =>
          \A k \in DOMAIN Ids(finalTree') :
              counter < Ids(finalTree')[k] /\ Ids(finalTree')[k] <= counter'

\* C28: across the runs of one worker the node-id counter only increases and is
\* never reset, so that no id is issued twice: every id of a later run's tree is
\* greater than every id of an earlier run's tree.
C28_IdsNeverReissued ==
    /\ []((Succeeded /\ prevTree # Empty) => IdsBelow(prevTree, finalTree))
    /\ [][CounterStep]_vars

\* a second run has posted its tree and both trees carry ids
C28_Witness ==
    /\ Succeeded
    /\ runs = 2
    /\ prevTree # Empty
    /\ Len(Ids(prevTree)) >= 3
    /\ Len(Ids(finalTree)) >= 3
    /\ counter = Len(Ids(prevTree)) + Len(Ids(finalTree))

\* C29: in word mode the label of every unit is a surface form of a token that
\* survived the customStopwords and nounOnly filters: never a custom stopword
\* and, under nounOnly, never a form that occurred only as a non-noun.
C29_LabelsRespectFilters ==
    (pc = "cluster" /\ req.mode = "word") =>
        \A i \in DOMAIN labels :
            Includes(Surviving(req), labels[i][1])

\* every token weight of the processed documents is positive
PositiveWeights(processed) ==
    \A key \in DOMAIN processed.tokenWeights : processed.tokenWeights[key] > 0

\* no coordinate is negative and the column of a term in all but one document
\* is zero in every vector
NonNegativeAndZeroColumns(vecs, docs) ==
    LET terms == KeptInFirstSeenOrder(docs)
    IN  /\ \A d \in DOMAIN vecs : \A k \in DOMAIN vecs[d] : vecs[d][k] >= 0
        /\ \A k \in DOMAIN terms :
              DocFreq(docs, terms[k]) = Len(docs) - 1 =>
                  \A d \in DOMAIN vecs : vecs[d][k] = 0

\* every coordinate of every vector is zero
AllZero(vecs) == \A d \in DOMAIN vecs : \A k \in DOMAIN vecs[d] : vecs[d][k] = 0

\* the enhanced run with positive weights over the given processed documents
NonNegativeRun(processed) ==
    PositiveWeights(processed) =>
        /\ NonNegativeAndZeroColumns(vectors, DocVocabularies(processed))
        /\ Len(segments) = 2 =>
              /\ AllZero(vectors)
              /\ "agnes" \in ran =>
                    /\ clusterResult.height = SCALE
                    /\ collectHeights(clusterResult) = <<SCALE, 0, 0>>

\* C30: in the enhanced pipeline with positive token weights no TF-IDF
\* coordinate is negative, a term in exactly N-1 of the N units scores 0 in
\* every vector, and with exactly 2 units every vector is the zero vector and
\* the single merge has height 1.
C30_NonNegativeAndTwoUnitsApart ==
    EnhancedRun =>
        NonNegativeRun(processDocumentsEnhanced(segments, enhancedOptions(req.options)))

\* two units with a shared vocabulary of at least one term were merged
TwoUnitsMerged(docs) ==
    /\ Len(docs) = 2
    /\ Cardinality(KeptTerms(docs)) >= 1
    /\ "agnes" \in ran

\* an enhanced run clustered two units whose vectors are not empty
C30_Witness ==
    /\ EnhancedRun
    /\ PositiveWeights(processDocumentsEnhanced(segments, enhancedOptions(req.options)))
    /\ TwoUnitsMerged(DocVocabularies(processDocumentsEnhanced(segments,
                                                               enhancedOptions(req.options))))

====
